---- MODULE Spec2Model ----
(***************************************************************************)
(* VulnMCP: the dispatcher of server.py (operation registry, resource      *)
(* ownership map, call_tool, read_resource) and the Progress Store of      *)
(* challenges/scoring/manager.py, as one state machine.                    *)
(*                                                                         *)
(* Strings of the program are TLC strings where the program only compares  *)
(* and concatenates them (operation names, badge identifiers), and tuples  *)
(* of one-character strings where the program parses them (resource        *)
(* addresses, which go through urlparse).                                  *)
(***************************************************************************)
EXTENDS Integers, Sequences, FiniteSets, TLC

VARIABLES
    challenges,             \* VulnMCPServer.challenges, in insertion order
    pstate,                 \* per plugin: BaseChallenge.attempts, .hints_used
    _tool_registry,         \* namespaced name -> <<cid, bare name>>
    _unique_tool_registry,  \* alias (bare name) -> <<cid, bare name>>
    _namespaced_tools,      \* the Tool objects listed under namespaced names
    _resource_owner,        \* <<scheme, netloc>> -> cid, or None (ambiguous)
    files,                  \* ScoreManager.data_dir: username -> stored JSON
    files_before,           \* auxiliary: files as the last request found them
    request,                \* the request or call handled last
    result,                 \* what it returned, or the exception it raised
    calls,                  \* the plugin methods it invoked, in order
    tasks                   \* the Progress Store calls of pending coroutines

vars == <<challenges, pstate, _tool_registry, _unique_tool_registry,
          _namespaced_tools, _resource_owner, files, files_before, request,
          result, calls, tasks>>

dispatcherVars == <<challenges, pstate, _tool_registry, _unique_tool_registry,
                    _namespaced_tools, _resource_owner>>

(***************************************************************************)
(* Bounds of the model.                                                    *)
(***************************************************************************)
MaxScore == 2       \* submitted scores range over -MaxScore..MaxScore
MaxAttempts == 1    \* a user's total_attempts stays within
MaxHints == 1       \* the hints_used of a user's entries together stay within
NumTasks == 3       \* the coroutines pending at once in SpecTasks
MaxPluginCount == 1 \* plugin methods count attempts and hints while the
                    \* counters of all plugins together stay within

Scores == (0 - MaxScore)..MaxScore

\* Unit ids handed to the Progress Store (a one-digit and a two-digit id, so
\* that the str()/int() round trip of the stored keys is exercised).
StoreIds == {2, 12}

Usernames == {"player"}

(***************************************************************************)
(* Python values.                                                          *)
(***************************************************************************)
None == "None"

\* datetime.now().isoformat(): the model keeps that a timestamp is present,
\* not its value.
Now == "timestamp"

EmptyDict == [k \in {} |-> None]

\* d[k] = v on a dict
Put(d, k, v) == [x \in DOMAIN d \cup {k} |-> IF x = k THEN v ELSE d[x]]

Range(s) == {s[i] : i \in DOMAIN s}

Max(a, b) == IF a >= b THEN a ELSE b

\* str(k) and int(s) on the unit ids stored as JSON object keys. A key is the
\* sequence of its characters: str writes the decimal digits of k behind a
\* "-" for a negative k, int reads such a sequence back.
IntKeys == (0 - 20)..20

DecimalDigits == <<"0", "1", "2", "3", "4", "5", "6", "7", "8", "9">>

RECURSIVE DigitsOf(_)
DigitsOf(n) ==
    IF n < 10 THEN <<DecimalDigits[n + 1]>>
    ELSE DigitsOf(n \div 10) \o <<DecimalDigits[(n % 10) + 1]>>

str(k) == IF k < 0 THEN <<"-">> \o DigitsOf(0 - k) ELSE DigitsOf(k)

DigitValue(c) == (CHOOSE i \in DOMAIN DecimalDigits : DecimalDigits[i] = c) - 1

RECURSIVE ParseDigits(_)
ParseDigits(s) ==
    IF s = <<>> THEN 0
    ELSE 10 * ParseDigits(SubSeq(s, 1, Len(s) - 1)) + DigitValue(s[Len(s)])

int(s) == IF Head(s) = "-" THEN 0 - ParseDigits(Tail(s)) ELSE ParseDigits(s)

(***************************************************************************)
(* Progress Store: manager.py                                              *)
(***************************************************************************)
\* UserProgress(...) of a user with no stored record
FreshProgress(username) ==
    [username |-> username,
     total_score |-> 0,
     challenges_completed |-> 0,
     total_attempts |-> 0,
     badges |-> <<>>,
     challenge_progress |-> EmptyDict,
     started_at |-> Now,
     last_activity |-> Now]

\* A stored record json.load or the conversion of its fields fails on
Corrupt == [corrupt |-> TRUE]

Unreadable(fs, username) == username \in DOMAIN fs /\ fs[username] = Corrupt

\* load_progress, when it returns: the keys of challenge_progress go through int()
load_progress(fs, username) ==
    IF username \notin DOMAIN fs
    THEN FreshProgress(username)
    ELSE LET data == fs[username]
             stored == data.challenge_progress
         IN  [data EXCEPT !.challenge_progress =
                 [cid \in {int(k) : k \in DOMAIN stored} |-> stored[str(cid)]]]

\* asdict(progress) with the keys of challenge_progress through str()
ToJson(progress) ==
    LET cp == progress.challenge_progress
    IN  [progress EXCEPT !.challenge_progress =
            [k \in {str(cid) : cid \in DOMAIN cp} |-> cp[int(k)]]]

\* save_progress keeping the entries of the file it overwrites
save_progress_merging(fs, progress) ==
    LET new == ToJson(progress)
        old == IF progress.username \in DOMAIN fs /\ fs[progress.username] # Corrupt
               THEN fs[progress.username].challenge_progress
               ELSE EmptyDict
        merged == [k \in DOMAIN old \cup DOMAIN new.challenge_progress |->
                      IF k \in DOMAIN new.challenge_progress
                      THEN new.challenge_progress[k] ELSE old[k]]
    IN  Put(fs, progress.username, [new EXCEPT !.challenge_progress = merged])

\* save_progress: a full overwrite of the user's file
save_progress(fs, progress) == Put(fs, progress.username, ToJson(progress))

\* ChallengeProgress(...) of a unit just started
StartedProgress(challenge_id) ==
    [challenge_id |-> challenge_id,
     completed |-> FALSE,
     score |-> 0,
     attempts |-> 0,
     hints_used |-> 0,
     time_started |-> Now,
     time_completed |-> None,
     best_score |-> 0]

start_challenge(fs, username, challenge_id) ==
    LET progress == load_progress(fs, username)
        cp == progress.challenge_progress
        cp1 == IF challenge_id \notin DOMAIN cp
               THEN Put(cp, challenge_id, StartedProgress(challenge_id))
               ELSE cp
    IN  save_progress(fs, [progress EXCEPT !.challenge_progress = cp1,
                                           !.last_activity = Now])

\* record_attempt counting the attempt in the unit's entry only
record_attempt_unit_only(fs, username, challenge_id) ==
    LET progress == load_progress(fs, username)
        cp == progress.challenge_progress
        p1 == IF challenge_id \in DOMAIN cp
              THEN [progress EXCEPT
                       !.challenge_progress[challenge_id].attempts = @ + 1]
              ELSE progress
    IN  save_progress(fs, [p1 EXCEPT !.last_activity = Now])

record_attempt(fs, username, challenge_id) ==
    LET progress == load_progress(fs, username)
        cp == progress.challenge_progress
        p1 == IF challenge_id \in DOMAIN cp
              THEN [progress EXCEPT
                       !.challenge_progress[challenge_id].attempts = @ + 1,
                       !.total_attempts = @ + 1]
              ELSE progress
    IN  save_progress(fs, [p1 EXCEPT !.last_activity = Now])

\* use_hint resetting the score of the unit
use_hint_resetting_score(fs, username, challenge_id, hint_level) ==
    LET progress == load_progress(fs, username)
        cp == progress.challenge_progress
        p1 == IF challenge_id \in DOMAIN cp
              THEN [progress EXCEPT
                       !.challenge_progress[challenge_id].hints_used = @ + 1,
                       !.challenge_progress[challenge_id].score = 0]
              ELSE progress
    IN  save_progress(fs, [p1 EXCEPT !.last_activity = Now])

use_hint(fs, username, challenge_id, hint_level) ==
    LET progress == load_progress(fs, username)
        cp == progress.challenge_progress
        p1 == IF challenge_id \in DOMAIN cp
              THEN [progress EXCEPT
                       !.challenge_progress[challenge_id].hints_used = @ + 1]
              ELSE progress
    IN  save_progress(fs, [p1 EXCEPT !.last_activity = Now])

\* the entries of a record that are completed
Completed(progress) ==
    {cid \in DOMAIN progress.challenge_progress :
        progress.challenge_progress[cid].completed}

\* list(set(badges)): one list per set. Python's order depends on the string
\* hashes of the run; the model lists the badges in the order of BadgeOrder.
BadgeOrder == <<"first_blood", "no_hints_hero", "speed_demon", "halfway",
                "champion", "perfect_score">>

ListOfSet(badges) == SelectSeq(BadgeOrder, LAMBDA b : b \in Range(badges))

\* _check_badges awarding champion at nine completed units
_check_badges_champion_at_nine(progress) ==
    LET cp == progress.challenge_progress
        held == Range(progress.badges)
        n == progress.challenges_completed
        no_hints == \A cid \in Completed(progress) : cp[cid].hints_used = 0
        speed_demon == \E cid \in DOMAIN cp :
                          cp[cid].completed /\ cp[cid].attempts <= 5
        perfect == \A cid \in Completed(progress) :
                      cp[cid].score = cp[cid].best_score
        earned == [b \in Range(BadgeOrder) |->
                     CASE b = "first_blood" -> n = 1
                       [] b = "no_hints_hero" -> no_hints /\ n >= 3
                       [] b = "speed_demon" -> speed_demon
                       [] b = "halfway" -> n >= 4
                       [] b = "champion" -> n = 9
                       [] b = "perfect_score" -> perfect /\ n >= 5]
    IN  SelectSeq(BadgeOrder, LAMBDA b : earned[b] /\ b \notin held)

\* _check_badges awarding no_hints_hero at two completed units
_check_badges_no_hints_at_two(progress) ==
    LET cp == progress.challenge_progress
        held == Range(progress.badges)
        n == progress.challenges_completed
        no_hints == \A cid \in Completed(progress) : cp[cid].hints_used = 0
        speed_demon == \E cid \in DOMAIN cp :
                          cp[cid].completed /\ cp[cid].attempts <= 5
        perfect == \A cid \in Completed(progress) :
                      cp[cid].score = cp[cid].best_score
        earned == [b \in Range(BadgeOrder) |->
                     CASE b = "first_blood" -> n = 1
                       [] b = "no_hints_hero" -> no_hints /\ n >= 2
                       [] b = "speed_demon" -> speed_demon
                       [] b = "halfway" -> n >= 4
                       [] b = "champion" -> n = 8
                       [] b = "perfect_score" -> perfect /\ n >= 5]
    IN  SelectSeq(BadgeOrder, LAMBDA b : earned[b] /\ b \notin held)

\* _check_badges reporting the badges already held as well
_check_badges_reporting_held(progress) ==
    LET cp == progress.challenge_progress
        n == progress.challenges_completed
        no_hints == \A cid \in Completed(progress) : cp[cid].hints_used = 0
        speed_demon == \E cid \in DOMAIN cp :
                          cp[cid].completed /\ cp[cid].attempts <= 5
        perfect == \A cid \in Completed(progress) :
                      cp[cid].score = cp[cid].best_score
        earned == [b \in Range(BadgeOrder) |->
                     CASE b = "first_blood" -> n = 1
                       [] b = "no_hints_hero" -> no_hints /\ n >= 3
                       [] b = "speed_demon" -> speed_demon
                       [] b = "halfway" -> n >= 4
                       [] b = "champion" -> n = 8
                       [] b = "perfect_score" -> perfect /\ n >= 5]
    IN  SelectSeq(BadgeOrder, LAMBDA b : earned[b])

\* _check_badges: the badges to award, in the order the rules are written
_check_badges(progress) ==
    LET cp == progress.challenge_progress
        held == Range(progress.badges)
        n == progress.challenges_completed
        no_hints == \A cid \in Completed(progress) : cp[cid].hints_used = 0
        speed_demon == \E cid \in DOMAIN cp :
                          cp[cid].completed /\ cp[cid].attempts <= 5
        perfect == \A cid \in Completed(progress) :
                      cp[cid].score = cp[cid].best_score
        earned == [b \in Range(BadgeOrder) |->
                     CASE b = "first_blood" -> n = 1
                       [] b = "no_hints_hero" -> no_hints /\ n >= 3
                       [] b = "speed_demon" -> speed_demon
                       [] b = "halfway" -> n >= 4
                       [] b = "champion" -> n = 8
                       [] b = "perfect_score" -> perfect /\ n >= 5]
    IN  SelectSeq(BadgeOrder, LAMBDA b : earned[b] /\ b \notin held)

\* UpdateScores without its guard: every submission is applied
UpdateScoresAlways(progress, challenge_id, score) ==
    LET cprog == progress.challenge_progress[challenge_id]
        first == ~cprog.completed
        cprog1 == [cprog EXCEPT
                      !.completed = TRUE,
                      !.time_completed = IF first THEN Now ELSE @,
                      !.score = score,
                      !.best_score = Max(cprog.best_score, score)]
    IN  [progress EXCEPT
            !.challenges_completed = IF first THEN @ + 1 ELSE @,
            !.challenge_progress[challenge_id] = cprog1,
            !.total_score = @ + (score - cprog.score)]

\* UpdateScores adding the new score to the total instead of the difference
UpdateScoresAddsScore(progress, challenge_id, score) ==
    LET cprog == progress.challenge_progress[challenge_id]
        first == ~cprog.completed
        cprog1 == [cprog EXCEPT
                      !.completed = TRUE,
                      !.time_completed = IF first THEN Now ELSE @,
                      !.score = score,
                      !.best_score = Max(cprog.best_score, score)]
    IN  IF ~cprog.completed \/ score > cprog.best_score
        THEN [progress EXCEPT
                 !.challenges_completed = IF first THEN @ + 1 ELSE @,
                 !.challenge_progress[challenge_id] = cprog1,
                 !.total_score = @ + score]
        ELSE progress

\* UpdateScores counting a completion at every applied submission
UpdateScoresRecounts(progress, challenge_id, score) ==
    LET cprog == progress.challenge_progress[challenge_id]
        first == ~cprog.completed
        cprog1 == [cprog EXCEPT
                      !.completed = TRUE,
                      !.time_completed = IF first THEN Now ELSE @,
                      !.score = score,
                      !.best_score = Max(cprog.best_score, score)]
    IN  IF ~cprog.completed \/ score > cprog.best_score
        THEN [progress EXCEPT
                 !.challenges_completed = @ + 1,
                 !.challenge_progress[challenge_id] = cprog1,
                 !.total_score = @ + (score - cprog.score)]
        ELSE progress

\* UpdateScores taking the new score for the best score
UpdateScoresBestIsLatest(progress, challenge_id, score) ==
    LET cprog == progress.challenge_progress[challenge_id]
        first == ~cprog.completed
        cprog1 == [cprog EXCEPT
                      !.completed = TRUE,
                      !.time_completed = IF first THEN Now ELSE @,
                      !.score = score,
                      !.best_score = score]
    IN  IF ~cprog.completed \/ score > cprog.best_score
        THEN [progress EXCEPT
                 !.challenges_completed = IF first THEN @ + 1 ELSE @,
                 !.challenge_progress[challenge_id] = cprog1,
                 !.total_score = @ + (score - cprog.score)]
        ELSE progress

\* Lines 163-176 of complete_challenge: the update of the unit's entry and of
\* the totals, applied when the unit is not completed or the score is better
UpdateScores(progress, challenge_id, score) ==
    LET cprog == progress.challenge_progress[challenge_id]
        first == ~cprog.completed
        cprog1 == [cprog EXCEPT
                      !.completed = TRUE,
                      !.time_completed = IF first THEN Now ELSE @,
                      !.score = score,
                      !.best_score = Max(cprog.best_score, score)]
    IN  IF ~cprog.completed \/ score > cprog.best_score
        THEN [progress EXCEPT
                 !.challenges_completed = IF first THEN @ + 1 ELSE @,
                 !.challenge_progress[challenge_id] = cprog1,
                 !.total_score = @ + (score - cprog.score)]
        ELSE progress

\* complete_challenge storing the new badges in place of the badge list
complete_challenge_replacing_badges(fs, username, challenge_id, score) ==
    LET progress == load_progress(fs, username)
    IN  IF challenge_id \notin DOMAIN progress.challenge_progress
        THEN [files |-> start_challenge(fs, username, challenge_id),
              ret |-> [raised |-> "KeyError"]]
        ELSE LET p1 == UpdateScores(progress, challenge_id, score)
                 new_badges == _check_badges(p1)
                 p2 == [p1 EXCEPT
                           !.badges = ListOfSet(new_badges),
                           !.last_activity = Now]
             IN  [files |-> save_progress(fs, p2),
                  ret |-> [raised |-> None,
                           returned |->
                               [score |-> score,
                                total_score |-> p2.total_score,
                                new_badges |-> new_badges,
                                challenges_completed |-> p2.challenges_completed]]]

\* complete_challenge: the files it leaves and what it returns or raises.
\* For a unit with no entry, start_challenge saves an entry to the file, but
\* the record loaded before (progress) does not get it, and line 161 raises
\* KeyError.
complete_challenge(fs, username, challenge_id, score) ==
    LET progress == load_progress(fs, username)
    IN  IF challenge_id \notin DOMAIN progress.challenge_progress
        THEN [files |-> start_challenge(fs, username, challenge_id),
              ret |-> [raised |-> "KeyError"]]
        ELSE LET p1 == UpdateScores(progress, challenge_id, score)
                 new_badges == _check_badges(p1)
                 p2 == [p1 EXCEPT
                           !.badges = ListOfSet(p1.badges \o new_badges),
                           !.last_activity = Now]
             IN  [files |-> save_progress(fs, p2),
                  ret |-> [raised |-> None,
                           returned |->
                               [score |-> score,
                                total_score |-> p2.total_score,
                                new_badges |-> new_badges,
                                challenges_completed |-> p2.challenges_completed]]]

(***************************************************************************)
(* Resource addresses and urlparse                                         *)
(***************************************************************************)
LowerCase == {"a", "b", "c", "d", "e", "f", "g", "h", "i", "j", "k", "l", "m",
              "n", "o", "p", "q", "r", "s", "t", "u", "v", "w", "x", "y", "z"}

\* The upper-case letters the addresses of the model use
UpperCase == {"V"}

Digits == {"0", "1", "2", "3", "4", "5", "6", "7", "8", "9"}

\* str.lower() on one character
Lower(c) == IF c = "V" THEN "v" ELSE c

\* urllib.parse.scheme_chars
SchemeChars == LowerCase \cup UpperCase \cup Digits \cup {"+", "-", "."}

Min(S) == CHOOSE m \in S : \A x \in S : m <= x

\* urlparse(uri), of which the program reads .scheme and .netloc: the scheme
\* is what precedes the first ":" when that is a letter followed by scheme
\* characters, lower-cased; the netloc is what follows "//" up to the next
\* "/", "?" or "#".
urlparse(url) ==
    LET colons == {j \in 1..Len(url) : url[j] = ":"}
        i == IF colons = {} THEN 0 ELSE Min(colons)
        hasScheme == /\ i > 1
                     /\ url[1] \in LowerCase \cup UpperCase
                     /\ \A j \in 1..(i - 1) : url[j] \in SchemeChars
        scheme == IF hasScheme THEN [j \in 1..(i - 1) |-> Lower(url[j])] ELSE <<>>
        rest == IF hasScheme THEN SubSeq(url, i + 1, Len(url)) ELSE url
        hasNetloc == Len(rest) >= 2 /\ rest[1] = "/" /\ rest[2] = "/"
        delims == {j \in 3..Len(rest) : rest[j] \in {"/", "?", "#"}}
        end == IF delims = {} THEN Len(rest) + 1 ELSE Min(delims)
        netloc == IF hasNetloc THEN SubSeq(rest, 3, end - 1) ELSE <<>>
    IN  [scheme |-> scheme, netloc |-> netloc]

SchemeVulnmcp == <<"v", "u", "l", "n", "m", "c", "p">>
NetlocDocs == <<"d", "o", "c", "s">>
NetlocPublic == <<"p", "u", "b", "l", "i", "c">>
NetlocWelcome == <<"w", "e", "l", "c", "o", "m", "e">>

\* "<scheme>://<netloc>" and "<scheme>://<netloc>/<path>"
Uri(scheme, netloc) == scheme \o <<":", "/", "/">> \o netloc

UriPath(scheme, netloc, path) == Uri(scheme, netloc) \o <<"/">> \o path

\* "vulnmcp://welcome", the resource the server answers itself
WelcomeUri == Uri(SchemeVulnmcp, NetlocWelcome)

(***************************************************************************)
(* Plugins: what get_tools() and get_resources() declare                   *)
(***************************************************************************)
\* A declared tool: its name, and a description that tells the declarations
\* apart (the core passes description and inputSchema through).
ToolOf(cid, i, name) == [name |-> name, description |-> <<cid, i>>]

ResourceOf(uri) == [uri |-> uri]

Challenge(cid, names, uris) ==
    [id |-> cid,
     tools |-> [i \in 1..Len(names) |-> ToolOf(cid, i, names[i])],
     resources |-> [i \in 1..Len(uris) |-> ResourceOf(uris[i])]]

\* The eight plugins VulnMCPServer.__init__ registers
RealChallenges ==
    <<Challenge(1, <<"system_info", "submit_flag">>, <<>>),
      Challenge(2, <<"read_doc", "submit_flag">>,
                <<UriPath(SchemeVulnmcp, NetlocDocs, <<"p", "u", "b", "l", "i", "c", "/", "w", "e", "l", "c", "o", "m", "e">>),
                  UriPath(SchemeVulnmcp, NetlocDocs, <<"p", "u", "b", "l", "i", "c", "/", "a", "b", "o", "u", "t">>),
                  UriPath(SchemeVulnmcp, NetlocDocs, <<"p", "u", "b", "l", "i", "c", "/", "h", "e", "l", "p">>)>>),
      Challenge(3, <<"set_context", "ask_assistant", "submit_flag">>, <<>>),
      Challenge(4, <<"list_emails", "read_email", "summarize_email", "submit_flag">>, <<>>),
      Challenge(5, <<"check_user", "request_verification", "verify_user",
                     "access_vault", "submit_flag">>, <<>>),
      Challenge(6, <<"analyze_public_data", "explain_analysis", "submit_flag">>, <<>>),
      Challenge(7, <<"send_auth_request", "execute_command", "submit_flag">>, <<>>),
      Challenge(8, <<"public_list_resources", "public_read_resource", "submit_flag">>,
                <<UriPath(SchemeVulnmcp, NetlocPublic, <<"w", "e", "l", "c", "o", "m", "e">>),
                  UriPath(SchemeVulnmcp, NetlocPublic, <<"d", "o", "c", "s">>)>>)>>

\* len(self.info.hints): every plugin carries three hints, levels 1..3
NumHints == 3

Ids(chs) == {chs[i].id : i \in DOMAIN chs}

\* self.challenges[cid]
ChallengeOf(chs, cid) == chs[CHOOSE i \in DOMAIN chs : chs[i].id = cid]

\* The declarations in the order the two-level loops visit them
RECURSIVE ToolDecls(_)
ToolDecls(chs) ==
    IF chs = <<>> THEN <<>>
    ELSE [i \in 1..Len(Head(chs).tools) |->
             [cid |-> Head(chs).id, tool |-> Head(chs).tools[i]]]
         \o ToolDecls(Tail(chs))

RECURSIVE ResourceDecls(_)
ResourceDecls(chs) ==
    IF chs = <<>> THEN <<>>
    ELSE [i \in 1..Len(Head(chs).resources) |->
             [cid |-> Head(chs).id, uri |-> Head(chs).resources[i].uri]]
         \o ResourceDecls(Tail(chs))

(***************************************************************************)
(* Operation registry: _build_tool_registry                                *)
(***************************************************************************)
\* name_counts after the first loop: name -> number of declarations
name_counts(chs) ==
    LET decls == ToolDecls(chs)
    IN  [n \in {decls[i].tool.name : i \in DOMAIN decls} |->
            Cardinality({i \in DOMAIN decls : decls[i].tool.name = n})]

\* ns_name without the unit id: every plugin's "check" gets one name
ns_name_without_unit(cid, name) == "lvl__" \o name

\* f"lvl{cid}__{t.name}"
ns_name(cid, name) == "lvl" \o ToString(cid) \o "__" \o name

\* GloballyUnique with >= 1 for == 1: every declared name gets an alias
DeclaredAtAll(counts, name) == name \in DOMAIN counts /\ counts[name] >= 1

\* name_counts.get(t.name, 0) == 1
GloballyUnique(counts, name) == name \in DOMAIN counts /\ counts[name] = 1

\* The second loop, one declaration after the other
RECURSIVE RegisterTools(_, _, _)
RegisterTools(decls, counts, acc) ==
    IF decls = <<>> THEN acc
    ELSE LET cid == Head(decls).cid
             t == Head(decls).tool
             ns == ns_name(cid, t.name)
         IN  RegisterTools(Tail(decls), counts,
                [raised |-> acc.raised,
                 _tool_registry |-> Put(acc._tool_registry, ns, <<cid, t.name>>),
                 _namespaced_tools |->
                     Append(acc._namespaced_tools,
                            [name |-> ns, description |-> t.description]),
                 _unique_tool_registry |->
                     IF GloballyUnique(counts, t.name)
                     THEN Put(acc._unique_tool_registry, t.name, <<cid, t.name>>)
                     ELSE acc._unique_tool_registry])

\* No statement of the function raises: raised stays None whatever is declared
_build_tool_registry(chs) ==
    RegisterTools(ToolDecls(chs), name_counts(chs),
                  [raised |-> None,
                   _tool_registry |-> EmptyDict,
                   _namespaced_tools |-> <<>>,
                   _unique_tool_registry |-> EmptyDict])

(***************************************************************************)
(* Resource ownership map: _build_resource_owner_map                       *)
(***************************************************************************)
\* None as a value of _resource_owner: the key is ambiguous. The model writes
\* it as an integer no plugin id equals (ids are positive).
NoOwner == -1

OwnerKey(uri) == <<urlparse(uri).scheme, urlparse(uri).netloc>>

\* Claimed without the ambiguous marking: the last plugin to declare wins
ClaimedByLast(owner, key, cid) == cid

\* Claimed taking an ambiguous key for one nobody owns
ClaimedAfresh(owner, key, cid) ==
    IF key \in DOMAIN owner /\ owner[key] # NoOwner /\ owner[key] # cid
    THEN NoOwner ELSE cid

\* Lines 113-116: the owner of key after plugin cid declared a resource under it
Claimed(owner, key, cid) ==
    IF key \in DOMAIN owner /\ owner[key] # cid THEN NoOwner ELSE cid

RECURSIVE ClaimAll(_, _)
ClaimAll(decls, owner) ==
    IF decls = <<>> THEN owner
    ELSE LET key == OwnerKey(Head(decls).uri)
         IN  ClaimAll(Tail(decls),
                      Put(owner, key, Claimed(owner, key, Head(decls).cid)))

\* Line 119: vulnmcp://docs/... is routed to Level 2
OverrideKey == <<SchemeVulnmcp, NetlocDocs>>

OverrideOwner == 2

\* The map after the automatic pass, before the override
AutomaticOwners(chs) == ClaimAll(ResourceDecls(chs), EmptyDict)

_build_resource_owner_map(chs) ==
    Put(AutomaticOwners(chs), OverrideKey, OverrideOwner)

(***************************************************************************)
(* Dispatcher: the handlers _register_handlers installs                    *)
(***************************************************************************)
TextContent(text) == [type |-> "text", text |-> text]

\* What handling one request leaves: the reply, the plugin methods invoked,
\* the plugins' own state and the progress files
Outcome(res, cs, ps, fs) == [result |-> res, calls |-> cs, pstate |-> ps, files |-> fs]

\* The bare names of the model in the order sorted() gives strings
NameOrder ==
    <<"access_vault", "analyze_public_data", "ask_assistant", "check",
      "check_user", "execute_command", "explain_analysis", "list_emails",
      "lvl2__check", "public_list_resources", "public_read_resource",
      "read_doc", "read_email", "request_verification",
      "send_auth_request", "set_context", "submit_flag", "summarize_email",
      "system_info", "verify_user", "vulnmcp_help">>

\* sorted(self._unique_tool_registry.items(), key=lambda x: x[0]), the keys
SortedNames(names) == SelectSeq(NameOrder, LAMBDA n : n \in names)

\* The two tools list_tools puts first. Their descriptions are written as
\* pairs with 0 for the plugin id, which no plugin has
BuiltinTools ==
    <<[name |-> "vulnmcp_help", description |-> <<0, 1>>],
      [name |-> "vulnmcp_hint", description |-> <<0, 2>>]>>

\* Lines 168-172: the first tool of plugin cid that carries the name
FirstToolNamed(cid, name) ==
    LET tools == ChallengeOf(challenges, cid).tools
        i == CHOOSE j \in DOMAIN tools :
                 /\ tools[j].name = name
                 /\ \A k \in DOMAIN tools : tools[k].name = name => j <= k
    IN  tools[i]

\* list_tools listing the namespaced tools under their bare names
list_tools_by_bare_name ==
    BuiltinTools
    \o [i \in DOMAIN _namespaced_tools |->
           [_namespaced_tools[i] EXCEPT
               !.name = _tool_registry[_namespaced_tools[i].name][2]]]
    \o [i \in DOMAIN SortedNames(DOMAIN _unique_tool_registry) |->
           LET name == SortedNames(DOMAIN _unique_tool_registry)[i]
           IN  FirstToolNamed(_unique_tool_registry[name][1], name)]

\* list_tools: the built-ins, the namespaced tools, then the aliases in
\* sorted order, each with the Tool object its plugin declared
list_tools ==
    BuiltinTools
    \o _namespaced_tools
    \o [i \in DOMAIN SortedNames(DOMAIN _unique_tool_registry) |->
           LET name == SortedNames(DOMAIN _unique_tool_registry)[i]
           IN  FirstToolNamed(_unique_tool_registry[name][1], name)]

\* arguments.get(key) / arguments.get(key, default): present or not
Has(arguments, key) == key \in DOMAIN arguments

\* The orders in which glob() may list the files of the data directory
GlobOrders(fs) ==
    {order \in [1..Cardinality(DOMAIN fs) -> DOMAIN fs] :
        \A i, j \in DOMAIN order : order[i] = order[j] => i = j}

\* InsertByScore sorting the lowest score first
InsertByScoreAscending(sorted, e) ==
    LET n == Cardinality({i \in DOMAIN sorted :
                             sorted[i].total_score <= e.total_score})
    IN  SubSeq(sorted, 1, n) \o <<e>> \o SubSeq(sorted, n + 1, Len(sorted))

\* leaderboard.sort(key=total_score, reverse=True): a stable sort, entries of
\* equal score keep the order they were appended in
InsertByScore(sorted, e) ==
    LET n == Cardinality({i \in DOMAIN sorted :
                             sorted[i].total_score >= e.total_score})
    IN  SubSeq(sorted, 1, n) \o <<e>> \o SubSeq(sorted, n + 1, Len(sorted))

RECURSIVE SortByScore(_)
SortByScore(entries) ==
    IF entries = <<>> THEN <<>>
    ELSE InsertByScore(SortByScore(SubSeq(entries, 1, Len(entries) - 1)),
                       entries[Len(entries)])

\* leaderboard[:limit], a negative limit counting from the end
SliceTo(list, limit) ==
    IF limit >= 0
    THEN SubSeq(list, 1, IF limit < Len(list) THEN limit ELSE Len(list))
    ELSE SubSeq(list, 1, Len(list) + limit)

\* get_leaderboard with the files listed in the given order: one entry per
\* readable file, sorted by total_score, highest first, cut to limit
get_leaderboard_in(fs, limit, order) ==
    LET listed == SelectSeq(order, LAMBDA u : fs[u] # Corrupt)
        leaderboard == [i \in DOMAIN listed |->
                           [username |-> fs[listed[i]].username,
                            total_score |-> fs[listed[i]].total_score,
                            challenges_completed |-> fs[listed[i]].challenges_completed,
                            badges |-> Len(fs[listed[i]].badges)]]
    IN  SliceTo(SortByScore(leaderboard), limit)

\* get_leaderboard as the dispatcher calls it; its data directory holds the
\* file of "player" only, which glob() lists in one order
get_leaderboard(fs, limit) ==
    get_leaderboard_in(fs, limit, CHOOSE order \in GlobOrders(fs) : TRUE)

\* _help: the text of the chosen page; the pages that read the Progress Store
\* raise what load_progress raises
_help(arguments) ==
    LET action == IF Has(arguments, "action") THEN arguments.action ELSE "help"
        reads == action \in {"challenges", "progress"}
        progress == load_progress(files, "player")
        text == CASE action = "challenges" ->
                        [msg |-> "challenges",
                         completed |-> Ids(challenges) \cap Completed(progress)]
                  [] action = "progress" ->
                        [msg |-> "progress",
                         username |-> progress.username,
                         completed |-> progress.challenges_completed,
                         score |-> progress.total_score]
                  [] action = "leaderboard" ->
                        [msg |-> "leaderboard",
                         entries |-> get_leaderboard(files, 10)]
                  [] OTHER -> [msg |-> "welcome"]
    IN  IF reads /\ Unreadable(files, "player")
        THEN [raised |-> "RecursionError"]
        ELSE [raised |-> None, content |-> <<TextContent(text)>>]

\* BaseChallenge.get_hint(level) for an integer level: the index level - 1
\* into the three hints, Python's negative indices included
get_hint(level) ==
    IF level <= NumHints
    THEN IF level >= 1
         THEN [counted |-> 1, raised |-> None, hint |-> level]
         ELSE IF level - 1 >= 0 - NumHints
              THEN [counted |-> 1, raised |-> None, hint |-> NumHints + level]
              ELSE [counted |-> 1, raised |-> "IndexError", hint |-> 0]
    ELSE [counted |-> 0, raised |-> None, hint |-> 0]

\* _get_hint(arguments.get("challenge_id"), arguments.get("level"))
_get_hint(arguments) ==
    IF ~Has(arguments, "challenge_id") \/ arguments.challenge_id \notin Ids(challenges)
    THEN Outcome([raised |-> None,
                  content |-> <<TextContent([msg |-> "Invalid challenge ID"])>>],
                 <<>>, pstate, files)
    ELSE LET cid == arguments.challenge_id
         IN  IF ~Has(arguments, "level")
             THEN Outcome([raised |-> "TypeError"],
                          <<[cid |-> cid, method |-> "get_hint"]>>, pstate, files)
             ELSE LET level == arguments.level
                      got == get_hint(level)
                      cs == <<[cid |-> cid, method |-> "get_hint", level |-> level]>>
                      ps == [pstate EXCEPT ![cid].hints_used = @ + got.counted]
                  IN  IF got.raised # None
                      THEN Outcome([raised |-> got.raised], cs, ps, files)
                      ELSE IF got.hint = 0
                      THEN Outcome([raised |-> None,
                                    content |-> <<TextContent([msg |-> "Invalid hint level",
                                                               level |-> level])>>],
                                   cs, ps, files)
                      ELSE IF Unreadable(files, "player")
                      THEN Outcome([raised |-> "RecursionError"], cs, ps, files)
                      ELSE Outcome([raised |-> None,
                                    content |-> <<TextContent([msg |-> "HINT",
                                                               cid |-> cid,
                                                               level |-> level,
                                                               hint |-> got.hint])>>],
                                   cs, ps, use_hint(files, "player", cid, level))

\* Resolve with the two lookups swapped: the alias table first
ResolveAliasFirst(name) ==
    IF name \in DOMAIN _unique_tool_registry
    THEN <<_unique_tool_registry[name]>>
    ELSE IF name \in DOMAIN _tool_registry
         THEN <<_tool_registry[name]>>
         ELSE <<>>

\* Lines 185-192: the namespaced table first, the alias table second;
\* <<>> when the name is in neither
Resolve(name) ==
    IF name \in DOMAIN _tool_registry
    THEN <<_tool_registry[name]>>
    ELSE IF name \in DOMAIN _unique_tool_registry
         THEN <<_unique_tool_registry[name]>>
         ELSE <<>>

\* Forward handing the plugin the namespaced name instead of the bare one
ForwardNamespacedName(cid, orig_name, arguments, bump, raises) ==
    Outcome(IF raises
            THEN [raised |-> "PluginError"]
            ELSE [raised |-> None,
                  content |-> <<TextContent([msg |-> "handled", by |-> cid,
                                             name |-> ns_name(cid, orig_name),
                                             arguments |-> arguments])>>],
            <<[cid |-> cid, method |-> "handle_tool_call",
               name |-> ns_name(cid, orig_name), arguments |-> arguments]>>,
            [pstate EXCEPT ![cid].attempts = @ + bump],
            files)

\* Forward counting the attempt on the plugin registered first
ForwardCountingOnFirst(cid, orig_name, arguments, bump, raises) ==
    Outcome(IF raises
            THEN [raised |-> "PluginError"]
            ELSE [raised |-> None,
                  content |-> <<TextContent([msg |-> "handled", by |-> cid,
                                             name |-> orig_name,
                                             arguments |-> arguments])>>],
            <<[cid |-> cid, method |-> "handle_tool_call",
               name |-> orig_name, arguments |-> arguments]>>,
            [pstate EXCEPT ![challenges[1].id].attempts = @ + bump],
            files)

\* self.challenges[cid].handle_tool_call(orig_name, arguments): the plugin's
\* own code, which may count an attempt (bump) and may raise (raises)
Forward(cid, orig_name, arguments, bump, raises) ==
    Outcome(IF raises
            THEN [raised |-> "PluginError"]
            ELSE [raised |-> None,
                  content |-> <<TextContent([msg |-> "handled", by |-> cid,
                                             name |-> orig_name,
                                             arguments |-> arguments])>>],
            <<[cid |-> cid, method |-> "handle_tool_call",
               name |-> orig_name, arguments |-> arguments]>>,
            [pstate EXCEPT ![cid].attempts = @ + bump],
            files)

\* The body of call_tool's try block
call_tool_body(name, arguments, bump, raises) ==
    IF name = "vulnmcp_help"
    THEN Outcome(_help(arguments), <<>>, pstate, files)
    ELSE IF name = "vulnmcp_hint"
    THEN _get_hint(arguments)
    ELSE IF Resolve(name) # <<>>
    THEN Forward(Resolve(name)[1][1], Resolve(name)[1][2], arguments, bump, raises)
    ELSE Outcome([raised |-> None,
                  content |-> <<TextContent([msg |-> "Unknown tool", name |-> name])>>],
                 <<>>, pstate, files)

\* call_tool without its except clause
call_tool_unguarded(name, arguments, bump, raises) ==
    call_tool_body(name, arguments, bump, raises)

\* call_tool: except Exception turns what the body raised into a text result
call_tool(name, arguments, bump, raises) ==
    LET out == call_tool_body(name, arguments, bump, raises)
    IN  IF out.result.raised # None
        THEN [out EXCEPT !.result =
                 [raised |-> None,
                  content |-> <<TextContent([msg |-> "Error executing tool",
                                             error |-> out.result.raised])>>]]
        ELSE out

\* The plugins, in registration order, whose declared resources hold uri
Declaring(uri) ==
    {i \in DOMAIN challenges :
        \E j \in DOMAIN challenges[i].resources : challenges[i].resources[j].uri = uri}

\* FirstDeclaring with the last match for the first
LastDeclaring(uri) == challenges[CHOOSE i \in Declaring(uri) : \A j \in Declaring(uri) : j <= i].id

\* Lines 228-234: the first plugin, in registration order, that declares uri
FirstDeclaring(uri) == challenges[Min(Declaring(uri))].id

\* self._resource_owner.get(key)
OwnerOf(uri) ==
    IF OwnerKey(uri) \in DOMAIN _resource_owner
    THEN _resource_owner[OwnerKey(uri)]
    ELSE NoOwner

\* challenge.handle_resource_read(uri_str): the plugin's own code
ForwardRead(cid, uri, bump, raises) ==
    Outcome(IF raises
            THEN [raised |-> "PluginError"]
            ELSE [raised |-> None, text |-> [msg |-> "read", by |-> cid, uri |-> uri]],
            <<[cid |-> cid, method |-> "handle_resource_read", uri |-> uri]>>,
            [pstate EXCEPT ![cid].attempts = @ + bump],
            files)

\* The body of read_resource's try block
read_resource_body(uri, bump, raises) ==
    IF uri = WelcomeUri
    THEN Outcome([raised |-> None, text |-> [msg |-> "welcome"]], <<>>, pstate, files)
    ELSE IF Declaring(uri) # {}
    THEN ForwardRead(FirstDeclaring(uri), uri, bump, raises)
    ELSE IF OwnerOf(uri) # NoOwner
    THEN IF OwnerOf(uri) \in Ids(challenges)
         THEN ForwardRead(OwnerOf(uri), uri, bump, raises)
         ELSE Outcome([raised |-> "KeyError"], <<>>, pstate, files)
    ELSE Outcome([raised |-> None,
                  text |-> [msg |-> "Resource not found", uri |-> uri]],
                 <<>>, pstate, files)

read_resource(uri, bump, raises) ==
    LET out == read_resource_body(uri, bump, raises)
    IN  IF out.result.raised # None
        THEN [out EXCEPT !.result =
                 [raised |-> None,
                  text |-> [msg |-> "Error reading resource",
                            error |-> out.result.raised]]]
        ELSE out

(***************************************************************************)
(* Actions                                                                 *)
(***************************************************************************)
RECURSIVE SumOver(_, _)
SumOver(S, f) ==
    IF S = {} THEN 0
    ELSE LET x == CHOOSE y \in S : TRUE IN f[x] + SumOver(S \ {x}, f)

PluginCount(ps) ==
    SumOver(DOMAIN ps, [cid \in DOMAIN ps |-> ps[cid].attempts + ps[cid].hints_used])

StoreWithinBounds(fs) ==
    \A u \in DOMAIN fs :
        fs[u] # Corrupt =>
            /\ fs[u].total_attempts <= MaxAttempts
            /\ SumOver(DOMAIN fs[u].challenge_progress,
                       [k \in DOMAIN fs[u].challenge_progress |->
                           fs[u].challenge_progress[k].hints_used]) <= MaxHints

\* The counters of the stored records: what StoreWithinBounds limits
StoreCounters(fs) ==
    [u \in {v \in DOMAIN fs : fs[v] # Corrupt} |->
        [total_attempts |-> fs[u].total_attempts,
         hints_used |-> [k \in DOMAIN fs[u].challenge_progress |->
                            fs[u].challenge_progress[k].hints_used]]]

\* A call is taken if it leaves the counters as they are or within the bounds
CountersWithinBounds(old, new) ==
    StoreCounters(new) = StoreCounters(old) \/ StoreWithinBounds(new)

\* One request handled by the dispatcher
Handle(req, outcome) ==
    \E out \in {outcome} :
        /\ PluginCount(out.pstate) <= MaxPluginCount
        /\ CountersWithinBounds(files, out.files)
        /\ request' = req
        /\ result' = out.result
        /\ calls' = out.calls
        /\ pstate' = out.pstate
        /\ files' = out.files
        /\ files_before' = files
        /\ UNCHANGED <<challenges, _tool_registry, _unique_tool_registry,
                       _namespaced_tools, _resource_owner, tasks>>

CallTool(name, arguments, bump, raises) ==
    Handle([op |-> "call_tool", name |-> name, arguments |-> arguments],
           call_tool(name, arguments, bump, raises))

ReadResource(uri, bump, raises) ==
    Handle([op |-> "read_resource", uri |-> uri],
           read_resource(uri, bump, raises))

\* One call of a Progress Store method. Each begins with load_progress, which
\* does not return a record when the user's file is unreadable.
StoreCall(req, outcome) ==
    /\ IF Unreadable(files, req.username)
       THEN files' = files /\ result' = [raised |-> "RecursionError"]
       ELSE \E out \in {outcome} :
                /\ CountersWithinBounds(files, out.files)
                /\ files' = out.files
                /\ result' = out.ret
    /\ files_before' = files
    /\ request' = req
    /\ calls' = <<>>
    /\ UNCHANGED <<dispatcherVars, tasks>>

StartChallenge(username, challenge_id) ==
    StoreCall([op |-> "start_challenge", username |-> username,
               challenge_id |-> challenge_id],
              [files |-> start_challenge(files, username, challenge_id),
               ret |-> [raised |-> None]])

RecordAttempt(username, challenge_id) ==
    StoreCall([op |-> "record_attempt", username |-> username,
               challenge_id |-> challenge_id],
              [files |-> record_attempt(files, username, challenge_id),
               ret |-> [raised |-> None]])

UseHint(username, challenge_id, hint_level) ==
    StoreCall([op |-> "use_hint", username |-> username,
               challenge_id |-> challenge_id, hint_level |-> hint_level],
              [files |-> use_hint(files, username, challenge_id, hint_level),
               ret |-> [raised |-> None, returned |-> [revealed |-> hint_level]]])

CompleteChallenge(username, challenge_id, score) ==
    StoreCall([op |-> "complete_challenge", username |-> username,
               challenge_id |-> challenge_id, score |-> score],
              complete_challenge(files, username, challenge_id, score))

(***************************************************************************)
(* Initial states: the state VulnMCPServer.__init__ leaves                 *)
(***************************************************************************)
InitWith(chs) ==
    /\ challenges = chs
    /\ pstate = [cid \in Ids(chs) |-> [attempts |-> 0, hints_used |-> 0]]
    /\ _tool_registry = _build_tool_registry(chs)._tool_registry
    /\ _unique_tool_registry = _build_tool_registry(chs)._unique_tool_registry
    /\ _namespaced_tools = _build_tool_registry(chs)._namespaced_tools
    /\ _resource_owner = _build_resource_owner_map(chs)
    /\ files = EmptyDict
    /\ files_before = EmptyDict
    /\ request = [op |-> "none"]
    /\ result = [raised |-> None]
    /\ calls = <<>>
    /\ tasks = <<>>

\* Orders of registration for plugin sets other than the real one. Unit 2 is
\* in each: line 119 names it as the owner of vulnmcp://docs.
IdOrders == {<<2>>, <<1, 2>>, <<2, 1>>, <<2, 12>>, <<12, 2>>}

\* Bare names plugins may declare: a plain one, one that reads like the
\* namespaced name of unit 2's "check", and the name of a built-in tool
BareNames == {"check", "lvl2__check", "vulnmcp_help"}

NameLists ==
    {<<>>} \cup {<<a>> : a \in BareNames} \cup {<<a, b>> : a, b \in BareNames}

ToolConfigs ==
    UNION {{[i \in DOMAIN order |-> Challenge(order[i], names[i], <<>>)] :
               names \in [DOMAIN order -> NameLists]} : order \in IdOrders}

\* Arguments of a tool call
Arguments == {[action |-> "progress", challenge_id |-> 2, level |-> 1],
              [challenge_id |-> 2, level |-> 4]}

\* Names a client may call: every listed and every declared name, the
\* built-ins, and a name nobody declared
CallNames ==
    DOMAIN _tool_registry \cup DOMAIN _unique_tool_registry
    \cup {ToolDecls(challenges)[i].tool.name : i \in DOMAIN ToolDecls(challenges)}
    \cup {"vulnmcp_help", "vulnmcp_hint", "no_such_tool"}

(***************************************************************************)
(* Spec: the server with its eight plugins, handling requests              *)
(***************************************************************************)
Init == InitWith(RealChallenges)

ReadUris ==
    {ResourceDecls(challenges)[i].uri : i \in DOMAIN ResourceDecls(challenges)}
    \cup {WelcomeUri,
          UriPath(SchemeVulnmcp, NetlocDocs, <<"a", "d", "m", "i", "n">>),
          UriPath(SchemeVulnmcp, NetlocPublic, <<"x">>),
          UriPath(<<"f", "i", "l", "e">>, <<>>, <<"e", "t", "c">>)}

Next ==
    \/ \E name \in CallNames, arguments \in Arguments, bump \in {0, 1}, raises \in BOOLEAN :
           CallTool(name, arguments, bump, raises)
    \/ \E uri \in ReadUris, bump \in {0, 1}, raises \in BOOLEAN :
           ReadResource(uri, bump, raises)

Spec == Init /\ [][Next]_vars

(***************************************************************************)
(* SpecRegistry: call_tool over plugin sets that differ in their tools     *)
(***************************************************************************)
InitRegistry == \E chs \in ToolConfigs : InitWith(chs)

\* The arguments of the calls of SpecRegistry: a valid hint request
RegistryArguments == {[action |-> "progress", challenge_id |-> 2, level |-> 1]}

NextRegistry ==
    \E name \in CallNames, arguments \in RegistryArguments, bump \in {0, 1},
       raises \in BOOLEAN :
        CallTool(name, arguments, bump, raises)

SpecRegistry == InitRegistry /\ [][NextRegistry]_vars

(***************************************************************************)
(* SpecResources: read_resource over plugin sets that differ in their      *)
(* resources                                                               *)
(***************************************************************************)
\* Addresses plugins may declare: one under the overridden key, two under
\* one key (they differ in the case of the scheme, which urlparse folds), and
\* two under the authority of the built-in welcome resource
DeclarableUris ==
    <<UriPath(SchemeVulnmcp, NetlocDocs, <<"a">>),
      UriPath(SchemeVulnmcp, NetlocPublic, <<"a">>),
      UriPath(<<"V", "u", "l", "n", "m", "c", "p">>, NetlocPublic, <<"a">>),
      WelcomeUri,
      UriPath(SchemeVulnmcp, NetlocWelcome, <<"a">>)>>

\* A plugin's resource list: up to two addresses, in the order of
\* DeclarableUris (the code reads a plugin's list for membership and for the
\* keys it holds, not for the order of its entries)
UriLists ==
    {<<>>} \cup {<<DeclarableUris[i]>> : i \in DOMAIN DeclarableUris}
           \cup UNION {{<<DeclarableUris[i], DeclarableUris[j]>> :
                           j \in i..Len(DeclarableUris)} : i \in DOMAIN DeclarableUris}

ResourceOrders == {<<2>>, <<1, 2>>, <<2, 1>>}

ResourceConfigs ==
    UNION {{[i \in DOMAIN order |-> Challenge(order[i], <<>>, uris[i])] :
               uris \in [DOMAIN order -> UriLists]} : order \in ResourceOrders}

InitResources == \E chs \in ResourceConfigs : InitWith(chs)

NextResources ==
    \E uri \in ReadUris, bump \in {0, 1}, raises \in BOOLEAN :
        ReadResource(uri, bump, raises)

SpecResources == InitResources /\ [][NextResources]_vars

(***************************************************************************)
(* SpecStore: the methods of ScoreManager, called in any order             *)
(***************************************************************************)
NextStore ==
    \/ \E u \in Usernames, cid \in StoreIds : StartChallenge(u, cid)
    \/ \E u \in Usernames, cid \in StoreIds : RecordAttempt(u, cid)
    \/ \E u \in Usernames, cid \in StoreIds : UseHint(u, cid, 1)
    \/ \E u \in Usernames, cid \in StoreIds, score \in Scores :
           CompleteChallenge(u, cid, score)

SpecStore == Init /\ [][NextStore]_vars

(***************************************************************************)
(* SpecRecords: records saved, loaded and ranked, and files that go bad    *)
(***************************************************************************)
Users == {"ann", "bob", "cy"}

\* challenge_progress and badges of the records saved: no unit; a completed
\* and a started unit, one id negative; a unit of two digits with no start
\* time and a badge listed twice
SavedShapes ==
    {[challenge_progress |-> EmptyDict, badges |-> <<>>],
     [challenge_progress |->
          Put(Put(EmptyDict, 2, [StartedProgress(2) EXCEPT !.completed = TRUE,
                                                           !.score = 1,
                                                           !.best_score = 2,
                                                           !.time_completed = Now]),
              0 - 3, StartedProgress(0 - 3)),
      badges |-> <<"speed_demon", "first_blood">>],
     [challenge_progress |->
          Put(EmptyDict, 12, [StartedProgress(12) EXCEPT !.time_started = None]),
      badges |-> <<"first_blood", "first_blood">>]}

SavedRecords ==
    {[username |-> u,
      total_score |-> t,
      challenges_completed |-> Cardinality(DOMAIN shape.challenge_progress),
      total_attempts |-> 0,
      badges |-> shape.badges,
      challenge_progress |-> shape.challenge_progress,
      started_at |-> Now,
      last_activity |-> Now] :
        u \in Users, t \in 0..(MaxScore - 1), shape \in SavedShapes}

Limits == 0..Cardinality(Users)

\* One call of a method of ScoreManager that reads or writes whole records
RecordCall(req, res, fs) ==
    /\ request' = req
    /\ result' = res
    /\ files' = fs
    /\ files_before' = files
    /\ calls' = <<>>
    /\ UNCHANGED <<dispatcherVars, tasks>>

\* load_progress: on a file it cannot read, the except branch calls
\* load_progress again, on the same file, until the interpreter raises
\* RecursionError
LoadProgress(username) ==
    RecordCall([op |-> "load_progress", username |-> username],
               IF Unreadable(files, username)
               THEN [raised |-> "RecursionError"]
               ELSE [raised |-> None, returned |-> load_progress(files, username)],
               files)

SaveProgress(progress) ==
    RecordCall([op |-> "save_progress", username |-> progress.username,
                progress |-> progress],
               [raised |-> None],
               save_progress(files, progress))

GetLeaderboard(limit, order) ==
    RecordCall([op |-> "get_leaderboard", limit |-> limit],
               [raised |-> None,
                returned |-> get_leaderboard_in(files, limit, order)],
               files)

\* The file of a user becomes one that json.load or the conversion fails on
Damage(username) ==
    RecordCall([op |-> "damage", username |-> username],
               [raised |-> None],
               Put(files, username, Corrupt))

NextRecords ==
    \/ \E u \in Users : LoadProgress(u)
    \/ \E progress \in SavedRecords : SaveProgress(progress)
    \/ \E limit \in Limits, order \in GlobOrders(files) : GetLeaderboard(limit, order)
    \/ \E u \in Users : Damage(u)

SpecRecords == Init /\ [][NextRecords]_vars

(***************************************************************************)
(* Properties of the operation registry and of call_tool (SpecRegistry)    *)
(***************************************************************************)
\* The (unit id, bare name) pairs the plugins declare
DeclaredPairs ==
    {<<ToolDecls(challenges)[i].cid, ToolDecls(challenges)[i].tool.name>> :
        i \in DOMAIN ToolDecls(challenges)}

DeclaredNames == {p[2] : p \in DeclaredPairs}

\* The plugins that declare bare name n
Declarers(n) == {p[1] : p \in {q \in DeclaredPairs : q[2] = n}}

\* The number of declarations, over all plugins, that carry bare name n
Occurrences(n) ==
    Cardinality({i \in DOMAIN ToolDecls(challenges) :
                    ToolDecls(challenges)[i].tool.name = n})

UniqueWithinPlugins ==
    \A i \in DOMAIN challenges :
        \A j, k \in DOMAIN challenges[i].tools :
            j # k => challenges[i].tools[j].name # challenges[i].tools[k].name

\* 'lvl<id>__<bare>' as the claims write it
Lvl(pair) == "lvl" \o ToString(pair[1]) \o "__" \o pair[2]

\* call_tool's reply for a name it does not know
UnknownTool(name) == <<TextContent([msg |-> "Unknown tool", name |-> name])>>

\* The one invocation of plugin cid's handle_tool_call with bare name n and
\* the arguments of the request
Invokes(cid, n) ==
    calls = <<[cid |-> cid, method |-> "handle_tool_call", name |-> n,
               arguments |-> request.arguments]>>

BuiltinNames == {"vulnmcp_help", "vulnmcp_hint"}

\* C1: when bare names are unique within each plugin, every declared
\* (unit id, bare name) pair gets the name lvl<id>__<bare>, no two distinct
\* pairs get the same name, and the namespaced table holds exactly one entry
\* per declared pair, which maps back to that pair.
C1_NamespacedNamesUnique ==
    UniqueWithinPlugins =>
        /\ \A p, q \in DeclaredPairs : p # q => Lvl(p) # Lvl(q)
        /\ DOMAIN _tool_registry = {Lvl(p) : p \in DeclaredPairs}
        /\ \A p \in DeclaredPairs : _tool_registry[Lvl(p)] = p
        /\ Cardinality(DOMAIN _tool_registry) = Cardinality(DeclaredPairs)
        /\ Len(_namespaced_tools) = Cardinality(DeclaredPairs)
        /\ \A i, j \in DOMAIN _namespaced_tools :
               i # j => _namespaced_tools[i].name # _namespaced_tools[j].name

\* Two plugins declare the same bare name, each also another one, and the
\* table holds all four pairs
C1_Witness ==
    /\ UniqueWithinPlugins
    /\ \E p, q \in DeclaredPairs : p[1] # q[1] /\ p[2] = q[2]
    /\ Cardinality(DeclaredPairs) = 4
    /\ Cardinality(DOMAIN _tool_registry) = 4

\* C2: a bare name is a key of the alias table if and only if exactly one
\* declaration across all plugins carries it, and the alias maps to the
\* (unit id, bare name) of the plugin that declared it.
C2_AliasIffGloballyUnique ==
    /\ DOMAIN _unique_tool_registry \subseteq DeclaredNames
    /\ \A n \in DeclaredNames :
           /\ n \in DOMAIN _unique_tool_registry <=> Occurrences(n) = 1
           /\ n \in DOMAIN _unique_tool_registry =>
                  /\ _unique_tool_registry[n] \in DeclaredPairs
                  /\ _unique_tool_registry[n][2] = n

\* One name is declared once and aliased, another is declared by two plugins
\* and is not
C2_Witness ==
    /\ \E n \in DeclaredNames :
           Occurrences(n) = 1 /\ n \in DOMAIN _unique_tool_registry
    /\ \E n \in DeclaredNames :
           Cardinality(Declarers(n)) = 2 /\ n \notin DOMAIN _unique_tool_registry

\* C3 as stated: when two or more plugins declare the same bare name,
\* call_tool with that bare name invokes no plugin and is reported as
\* unknown, and call_tool with lvl<id>__<bare> invokes exactly plugin <id>'s
\* handle_tool_call with the bare name and the caller's arguments.
C3_AsStated ==
    request.op = "call_tool" =>
        /\ Cardinality(Declarers(request.name)) >= 2 =>
               calls = <<>> /\ result.content = UnknownTool(request.name)
        /\ \A p \in DeclaredPairs :
               Cardinality(Declarers(p[2])) >= 2 /\ request.name = Lvl(p) =>
                   Invokes(p[1], p[2])

\* C3, amended: the same, for a bare name that is neither the name of a
\* built-in tool nor itself a key of the namespaced table.
C3_CollidingBareName ==
    request.op = "call_tool" =>
        /\ ( /\ Cardinality(Declarers(request.name)) >= 2
             /\ request.name \notin BuiltinNames
             /\ request.name \notin DOMAIN _tool_registry ) =>
               calls = <<>> /\ result.content = UnknownTool(request.name)
        /\ \A p \in DeclaredPairs :
               Cardinality(Declarers(p[2])) >= 2 /\ request.name = Lvl(p) =>
                   Invokes(p[1], p[2])

\* "check" is declared by two plugins; the call by the bare name was
\* answered as unknown
C3_Witness ==
    /\ request.op = "call_tool"
    /\ request.name = "check"
    /\ Cardinality(Declarers("check")) = 2
    /\ calls = <<>>
    /\ result.content = UnknownTool("check")

\* C4 as stated: a name in the namespaced table goes to that table's target,
\* a name only in the alias table to the alias's target, and a name in
\* neither table gets one text result that names it as unknown, with no
\* exception and no plugin method invoked.
C4_AsStated ==
    request.op = "call_tool" =>
        /\ result.raised = None
        /\ Len(result.content) = 1
        /\ request.name \in DOMAIN _tool_registry =>
               Invokes(_tool_registry[request.name][1], _tool_registry[request.name][2])
        /\ ( /\ request.name \notin DOMAIN _tool_registry
             /\ request.name \in DOMAIN _unique_tool_registry ) =>
               Invokes(_unique_tool_registry[request.name][1],
                       _unique_tool_registry[request.name][2])
        /\ ( /\ request.name \notin DOMAIN _tool_registry
             /\ request.name \notin DOMAIN _unique_tool_registry ) =>
               calls = <<>> /\ result.content = UnknownTool(request.name)

\* C4, amended: the same, for every name other than the two built-in tools
\* vulnmcp_help and vulnmcp_hint, which call_tool answers before it looks
\* into either table.
C4_LookupOrder ==
    (request.op = "call_tool" /\ request.name \notin BuiltinNames) =>
        /\ result.raised = None
        /\ Len(result.content) = 1
        /\ request.name \in DOMAIN _tool_registry =>
               Invokes(_tool_registry[request.name][1], _tool_registry[request.name][2])
        /\ ( /\ request.name \notin DOMAIN _tool_registry
             /\ request.name \in DOMAIN _unique_tool_registry ) =>
               Invokes(_unique_tool_registry[request.name][1],
                       _unique_tool_registry[request.name][2])
        /\ ( /\ request.name \notin DOMAIN _tool_registry
             /\ request.name \notin DOMAIN _unique_tool_registry ) =>
               calls = <<>> /\ result.content = UnknownTool(request.name)

\* A name in neither table was called and answered as unknown, while the
\* tables hold other names
C4_Witness ==
    /\ request.op = "call_tool"
    /\ request.name = "no_such_tool"
    /\ _unique_tool_registry # EmptyDict
    /\ calls = <<>>
    /\ result.content = UnknownTool("no_such_tool")

(***************************************************************************)
(* Properties of the ownership map and of read_resource (SpecResources)    *)
(***************************************************************************)
\* The plugins that declare a resource under key
KeyDeclarers(key) ==
    {ResourceDecls(challenges)[i].cid :
        i \in {j \in DOMAIN ResourceDecls(challenges) :
                  OwnerKey(ResourceDecls(challenges)[j].uri) = key}}

DeclaredKeys ==
    {OwnerKey(ResourceDecls(challenges)[i].uri) : i \in DOMAIN ResourceDecls(challenges)}

\* Keys two different plugins declare resources under, without an override
ContestedKeys ==
    {key \in DeclaredKeys : Cardinality(KeyDeclarers(key)) >= 2 /\ key # OverrideKey}

\* The one invocation of plugin cid's handle_resource_read with the address
\* of the request
Reads(cid) ==
    calls = <<[cid |-> cid, method |-> "handle_resource_read", uri |-> request.uri]>>

NotFound(uri) == [msg |-> "Resource not found", uri |-> uri]

\* C5 as stated: a key two different plugins declare resources under, with
\* no override, is ambiguous in the ownership map; reading an address one of
\* them declares is forwarded to a plugin that declares exactly that address,
\* and reading an undeclared address under the key returns not-found.
C5_AsStated ==
    /\ \A key \in ContestedKeys : _resource_owner[key] = NoOwner
    /\ (request.op = "read_resource" /\ OwnerKey(request.uri) \in ContestedKeys) =>
           IF Declaring(request.uri) # {}
           THEN \E i \in Declaring(request.uri) : Reads(challenges[i].id)
           ELSE calls = <<>> /\ result.text = NotFound(request.uri)

\* C5, amended: the same for every address other than vulnmcp://welcome,
\* which read_resource answers itself before it looks at any plugin.
C5_AmbiguousKey ==
    /\ \A key \in ContestedKeys : _resource_owner[key] = NoOwner
    /\ ( /\ request.op = "read_resource"
         /\ request.uri # WelcomeUri
         /\ OwnerKey(request.uri) \in ContestedKeys ) =>
           IF Declaring(request.uri) # {}
           THEN \E i \in Declaring(request.uri) : Reads(challenges[i].id)
           ELSE calls = <<>> /\ result.text = NotFound(request.uri)

\* An address declared by one of two plugins that share its key was read:
\* the key is ambiguous, and the read went to the declaring plugin
C5_Witness ==
    /\ request.op = "read_resource"
    /\ request.uri # WelcomeUri
    /\ OwnerKey(request.uri) \in ContestedKeys
    /\ _resource_owner[OwnerKey(request.uri)] = NoOwner
    /\ Cardinality(Declaring(request.uri)) = 1
    /\ Reads(FirstDeclaring(request.uri))

\* C6 as stated: an address some plugin declares exactly goes to the first
\* such plugin in registration order, whatever the ownership map holds for
\* its key; any other address goes to the owner of its key if the map names
\* one, and is answered with not-found otherwise.
C6_AsStated ==
    request.op = "read_resource" =>
        IF Declaring(request.uri) # {}
        THEN Reads(challenges[Min(Declaring(request.uri))].id)
        ELSE IF OwnerOf(request.uri) # NoOwner
             THEN Reads(OwnerOf(request.uri))
             ELSE calls = <<>> /\ result.text = NotFound(request.uri)

\* C6, amended: the same for every address other than vulnmcp://welcome,
\* which read_resource answers itself before it looks at any plugin.
C6_ExactMatchFirst ==
    (request.op = "read_resource" /\ request.uri # WelcomeUri) =>
        IF Declaring(request.uri) # {}
        THEN Reads(challenges[Min(Declaring(request.uri))].id)
        ELSE IF OwnerOf(request.uri) # NoOwner
             THEN Reads(OwnerOf(request.uri))
             ELSE calls = <<>> /\ result.text = NotFound(request.uri)

\* Two plugins declare the address read; the map names the second of them as
\* the owner of its key, and the read went to the first
C6_Witness ==
    /\ request.op = "read_resource"
    /\ Cardinality(Declaring(request.uri)) = 2
    /\ OwnerOf(request.uri) # NoOwner
    /\ OwnerOf(request.uri) # challenges[1].id
    /\ Reads(challenges[1].id)

(***************************************************************************)
(* Properties of the Progress Store (SpecStore)                            *)
(***************************************************************************)
\* The record of the user of the last call, as the call found it and as it
\* left it
Before == load_progress(files_before, request.username)

After == load_progress(files, request.username)

\* The entry of the unit of the last call
EntryBefore == Before.challenge_progress[request.challenge_id]

EntryAfter == After.challenge_progress[request.challenge_id]

\* The last call was complete_challenge for a unit that stood completed
Resubmitted ==
    /\ request.op = "complete_challenge"
    /\ request.challenge_id \in DOMAIN Before.challenge_progress
    /\ EntryBefore.completed

\* The sum of best_score over the completed entries of a record
SumOfBest(progress) ==
    SumOver(Completed(progress),
            [cid \in Completed(progress) |->
                progress.challenge_progress[cid].best_score])

\* C7: once a unit is completed with score s, complete_challenge for it with
\* a score t <= s leaves its best_score, the user's total_score and
\* challenges_completed as they were. A completion with score s leaves
\* best_score >= s and no call lowers best_score, so t <= s is t <= best_score
\* at the time of the call.
C7_LowerScoreChangesNothing ==
    /\ (request.op = "complete_challenge" /\ result.raised = None) =>
           EntryAfter.completed /\ EntryAfter.best_score >= request.score
    /\ request.op \in {"start_challenge", "record_attempt", "use_hint",
                       "complete_challenge"} =>
           \A cid \in DOMAIN Before.challenge_progress :
               /\ cid \in DOMAIN After.challenge_progress
               /\ After.challenge_progress[cid].best_score
                      >= Before.challenge_progress[cid].best_score
    /\ (Resubmitted /\ request.score <= EntryBefore.best_score) =>
           /\ EntryAfter.best_score = EntryBefore.best_score
           /\ After.total_score = Before.total_score
           /\ After.challenges_completed = Before.challenges_completed

\* A unit completed with score 2 was submitted again with score 1
C7_Witness ==
    /\ Resubmitted
    /\ EntryBefore.score = 2
    /\ request.score = 1
    /\ EntryAfter.best_score = 2
    /\ After.total_score = Before.total_score

\* C8 as stated: for a unit that stands completed with score s,
\* complete_challenge with t > s raises total_score by exactly t - s, sets
\* best_score to t and leaves challenges_completed.
C8_AsStated ==
    (Resubmitted /\ request.score > EntryBefore.score) =>
        /\ After.total_score = Before.total_score + (request.score - EntryBefore.score)
        /\ EntryAfter.best_score = request.score
        /\ After.challenges_completed = Before.challenges_completed

\* C8, amended: the same when the score s the unit stands completed with is
\* not negative.
C8_HigherScoreAddsDelta ==
    (Resubmitted /\ EntryBefore.score >= 0 /\ request.score > EntryBefore.score) =>
        /\ After.total_score = Before.total_score + (request.score - EntryBefore.score)
        /\ EntryAfter.best_score = request.score
        /\ After.challenges_completed = Before.challenges_completed

\* A unit completed with score 1 was submitted again with score 2, while
\* another unit's score is part of the total
C8_Witness ==
    /\ Resubmitted
    /\ EntryBefore.score = 1
    /\ request.score = 2
    /\ Before.total_score > 1
    /\ After.total_score = Before.total_score + 1

\* C9 as stated: in every stored record, challenges_completed is the number
\* of completed entries and total_score is the sum of their best_score.
C9_AsStated ==
    \A u \in DOMAIN files :
        LET progress == load_progress(files, u)
        IN  /\ progress.challenges_completed = Cardinality(Completed(progress))
            /\ progress.total_score = SumOfBest(progress)

\* C9, amended: challenges_completed is the number of completed entries, and
\* total_score is the sum of their best_score in every record none of whose
\* completed entries holds a negative current score (as after any sequence of
\* calls whose submitted scores are not negative).
C9_CountAndSum ==
    \A u \in DOMAIN files :
        LET progress == load_progress(files, u)
        IN  /\ progress.challenges_completed = Cardinality(Completed(progress))
            /\ (\A cid \in Completed(progress) :
                    progress.challenge_progress[cid].score >= 0) =>
                   progress.total_score = SumOfBest(progress)

\* Two units are completed, one of them after a better second submission
C9_Witness ==
    /\ Resubmitted
    /\ request.score > EntryBefore.score
    /\ EntryBefore.score > 0
    /\ Cardinality(Completed(After)) = 2
    /\ After.challenges_completed = 2
    /\ After.total_score = SumOfBest(After)
    /\ After.total_score >= 3

\* C10: complete_challenge for a unit with no entry in the user's record
\* creates the entry, marks it completed with the submitted score, saves the
\* record and returns the summary.
C10_AsStated ==
    ( /\ request.op = "complete_challenge"
      /\ request.challenge_id \notin DOMAIN Before.challenge_progress ) =>
        /\ result.raised = None
        /\ request.challenge_id \in DOMAIN After.challenge_progress
        /\ EntryAfter.completed
        /\ EntryAfter.score = request.score
        /\ result.returned.score = request.score
        /\ result.returned.total_score = After.total_score
        /\ result.returned.challenges_completed = After.challenges_completed

\* C11: for a user with no stored record, the first complete_challenge of a
\* unit with score s returns {score s, total_score s, new_badges
\* [first_blood], challenges_completed 1}; completing the unit again with a
\* lower score t returns {score t, total_score s, new_badges [],
\* challenges_completed 1}.
C11_AsStated ==
    /\ ( /\ request.op = "complete_challenge"
         /\ request.username \notin DOMAIN files_before ) =>
           /\ result.raised = None
           /\ result.returned = [score |-> request.score,
                                 total_score |-> request.score,
                                 new_badges |-> <<"first_blood">>,
                                 challenges_completed |-> 1]
    /\ ( /\ Resubmitted
         /\ DOMAIN Before.challenge_progress = {request.challenge_id}
         /\ Before.total_score = EntryBefore.score
         /\ request.score < EntryBefore.score ) =>
           /\ result.raised = None
           /\ result.returned = [score |-> request.score,
                                 total_score |-> EntryBefore.score,
                                 new_badges |-> <<>>,
                                 challenges_completed |-> 1]

\* The operations of the Progress Store that write the record
StoreOps == {"start_challenge", "record_attempt", "use_hint", "complete_challenge"}

\* C12: from a fresh record on, first_blood is in the badge list of every
\* record with a completed unit, from the first completion on, and no start,
\* attempt, hint or completion operation takes it out of the list.
C12_FirstBloodStays ==
    /\ \A u \in DOMAIN files :
           LET progress == load_progress(files, u)
           IN  Completed(progress) # {} => "first_blood" \in Range(progress.badges)
    /\ (request.op \in StoreOps /\ "first_blood" \in Range(Before.badges)) =>
           "first_blood" \in Range(After.badges)

\* first_blood is still held after a second unit was completed and a hint
\* was taken afterwards
C12_Witness ==
    /\ request.op = "use_hint"
    /\ Cardinality(Completed(After)) = 2
    /\ "first_blood" \in Range(Before.badges)
    /\ "first_blood" \in Range(After.badges)

(***************************************************************************)
(* SpecBadges: completions of the eight registered units and of a unit     *)
(* that is not registered                                                  *)
(***************************************************************************)
\* The unit ids completed: those of the registered plugins and one more
BadgeIds == Ids(challenges) \cup {9}

\* The files after start_challenge for each of the units of a set
RECURSIVE StartAll(_, _, _)
StartAll(fs, username, cids) ==
    IF cids = {} THEN fs
    ELSE LET cid == CHOOSE c \in cids : TRUE
         IN  StartAll(start_challenge(fs, username, cid), username, cids \ {cid})

\* The server as constructed, after start_challenge of the player for each
\* registered unit
InitBadges ==
    /\ challenges = RealChallenges
    /\ pstate = [cid \in Ids(RealChallenges) |-> [attempts |-> 0, hints_used |-> 0]]
    /\ _tool_registry = _build_tool_registry(RealChallenges)._tool_registry
    /\ _unique_tool_registry = _build_tool_registry(RealChallenges)._unique_tool_registry
    /\ _namespaced_tools = _build_tool_registry(RealChallenges)._namespaced_tools
    /\ _resource_owner = _build_resource_owner_map(RealChallenges)
    /\ files = StartAll(EmptyDict, "player", Ids(RealChallenges))
    /\ files_before = files
    /\ request = [op |-> "none"]
    /\ result = [raised |-> None]
    /\ calls = <<>>
    /\ tasks = <<>>

NextBadges ==
    \E cid \in BadgeIds : CompleteChallenge("player", cid, MaxScore)

SpecBadges == InitBadges /\ [][NextBadges]_vars

(***************************************************************************)
(* SpecAwards: completions of three units that differ in the attempts and  *)
(* hints recorded before                                                   *)
(***************************************************************************)
AwardIds == {1, 2, 3}

\* The attempts a unit needs to be past the limit of speed_demon
ManyAttempts == 6

\* The files after n calls of record_attempt for one unit
RECURSIVE AttemptTimes(_, _, _, _)
AttemptTimes(fs, username, cid, n) ==
    IF n = 0 THEN fs
    ELSE AttemptTimes(record_attempt(fs, username, cid), username, cid, n - 1)

\* The files after ManyAttempts attempts on each unit of tried and one hint
\* on each unit of hinted
RECURSIVE Prepared(_, _, _)
Prepared(fs, tried, hinted) ==
    IF tried # {}
    THEN LET cid == CHOOSE c \in tried : TRUE
         IN  Prepared(AttemptTimes(fs, "player", cid, ManyAttempts),
                      tried \ {cid}, hinted)
    ELSE IF hinted # {}
    THEN LET cid == CHOOSE c \in hinted : TRUE
         IN  Prepared(use_hint(fs, "player", cid, 1), tried, hinted \ {cid})
    ELSE fs

\* The server as constructed, after the player started the three units, made
\* attempts on some and took a hint on some
InitAwards ==
    /\ challenges = RealChallenges
    /\ pstate = [cid \in Ids(RealChallenges) |-> [attempts |-> 0, hints_used |-> 0]]
    /\ _tool_registry = _build_tool_registry(RealChallenges)._tool_registry
    /\ _unique_tool_registry = _build_tool_registry(RealChallenges)._unique_tool_registry
    /\ _namespaced_tools = _build_tool_registry(RealChallenges)._namespaced_tools
    /\ _resource_owner = _build_resource_owner_map(RealChallenges)
    /\ \E tried \in SUBSET AwardIds, hinted \in SUBSET AwardIds :
           files = Prepared(StartAll(EmptyDict, "player", AwardIds), tried, hinted)
    /\ files_before = files
    /\ request = [op |-> "none"]
    /\ result = [raised |-> None]
    /\ calls = <<>>
    /\ tasks = <<>>

NextAwards ==
    \E cid \in AwardIds : CompleteChallenge("player", cid, MaxScore)

SpecAwards == InitAwards /\ [][NextAwards]_vars

(***************************************************************************)
(* SpecTasks: Progress Store calls made by coroutines that are pending at  *)
(* the same time on the one event loop of asyncio.run(main()). A call is   *)
(* two steps, its load_progress and its save_progress.                     *)
(***************************************************************************)
TaskIds == 1..NumTasks

TaskUnit == 2

\* The calls a pending coroutine may be about to make
PendingCalls ==
    {[op |-> op, username |-> "player", challenge_id |-> TaskUnit,
      score |-> MaxScore, pc |-> "pending", loaded |-> EmptyDict,
      stale |-> FALSE] : op \in
        {"start_challenge", "record_attempt", "use_hint", "complete_challenge"}}

\* A task switch at any point, as between threads
MayRunAnytime(t) == TRUE

\* The event loop switches tasks only where the running coroutine awaits
\* something that suspends. The methods of ScoreManager are plain functions
\* and neither they nor _get_hint await between the load and the save, so
\* while a call is between the two no other coroutine runs.
MayRun(t) == \A u \in TaskIds \ {t} : tasks[u].pc # "loaded"

\* What the call of a task returns and saves, computed from the files it loaded
TaskOutcome(task) ==
    CASE task.op = "start_challenge" ->
            [files |-> start_challenge(task.loaded, task.username, task.challenge_id),
             ret |-> [raised |-> None]]
      [] task.op = "record_attempt" ->
            [files |-> record_attempt(task.loaded, task.username, task.challenge_id),
             ret |-> [raised |-> None]]
      [] task.op = "use_hint" ->
            [files |-> use_hint(task.loaded, task.username, task.challenge_id, 1),
             ret |-> [raised |-> None, returned |-> "Hint recorded"]]
      [] task.op = "complete_challenge" ->
            complete_challenge(task.loaded, task.username, task.challenge_id,
                               task.score)

\* progress = self.load_progress(username), the first statement of each method
TaskLoad(t) ==
    /\ tasks[t].pc = "pending"
    /\ MayRun(t)
    /\ tasks' = [tasks EXCEPT ![t].pc = "loaded", ![t].loaded = files]
    /\ UNCHANGED <<dispatcherVars, files, files_before, request, result, calls>>

\* The rest of the method: the mutation and save_progress, a full overwrite of
\* the user's file with the record the method holds
TaskSave(t) ==
    /\ tasks[t].pc = "loaded"
    /\ MayRun(t)
    /\ \E out \in {TaskOutcome(tasks[t])} :
           /\ files' = IF tasks[t].username \in DOMAIN out.files
                        THEN Put(files, tasks[t].username,
                                 out.files[tasks[t].username])
                        ELSE files
           /\ result' = out.ret
    /\ tasks' = [tasks EXCEPT ![t].pc = "done",
                               ![t].stale = (files # tasks[t].loaded)]
    /\ files_before' = tasks[t].loaded
    /\ request' = [op |-> tasks[t].op, username |-> tasks[t].username,
                    challenge_id |-> tasks[t].challenge_id]
    /\ calls' = <<>>
    /\ UNCHANGED dispatcherVars

InitTasks ==
    /\ challenges = RealChallenges
    /\ pstate = [cid \in Ids(RealChallenges) |-> [attempts |-> 0, hints_used |-> 0]]
    /\ _tool_registry = _build_tool_registry(RealChallenges)._tool_registry
    /\ _unique_tool_registry = _build_tool_registry(RealChallenges)._unique_tool_registry
    /\ _namespaced_tools = _build_tool_registry(RealChallenges)._namespaced_tools
    /\ _resource_owner = _build_resource_owner_map(RealChallenges)
    /\ files = EmptyDict
    /\ files_before = EmptyDict
    /\ request = [op |-> "none"]
    /\ result = [raised |-> None]
    /\ calls = <<>>
    /\ tasks \in [TaskIds -> PendingCalls]

NextTasks == \E t \in TaskIds : TaskLoad(t) \/ TaskSave(t)

SpecTasks == InitTasks /\ [][NextTasks]_vars

(***************************************************************************)
(* SpecPerfect: completions and resubmissions of five units with scores    *)
(* that are not negative                                                   *)
(***************************************************************************)
PerfectIds == 1..5

\* The lowest and the highest of the scores that are not negative
NonNegativeScores == {0, MaxScore}

InitPerfect ==
    /\ challenges = RealChallenges
    /\ pstate = [cid \in Ids(RealChallenges) |-> [attempts |-> 0, hints_used |-> 0]]
    /\ _tool_registry = _build_tool_registry(RealChallenges)._tool_registry
    /\ _unique_tool_registry = _build_tool_registry(RealChallenges)._unique_tool_registry
    /\ _namespaced_tools = _build_tool_registry(RealChallenges)._namespaced_tools
    /\ _resource_owner = _build_resource_owner_map(RealChallenges)
    /\ files = StartAll(EmptyDict, "player", PerfectIds)
    /\ files_before = files
    /\ request = [op |-> "none"]
    /\ result = [raised |-> None]
    /\ calls = <<>>
    /\ tasks = <<>>

NextPerfect ==
    \E cid \in PerfectIds, score \in NonNegativeScores :
        CompleteChallenge("player", cid, score)

SpecPerfect == InitPerfect /\ [][NextPerfect]_vars

(***************************************************************************)
(* SpecListing: list_tools and call_tool over plugin sets that differ in   *)
(* their tools                                                             *)
(***************************************************************************)
ListTools ==
    Handle([op |-> "list_tools"],
           Outcome([raised |-> None, tools |-> list_tools], <<>>, pstate, files))

NextListing ==
    \/ ListTools
    \/ \E name \in CallNames, raises \in BOOLEAN :
           CallTool(name, [challenge_id |-> 2, level |-> 4], 0, raises)

SpecListing == InitRegistry /\ [][NextListing]_vars

(***************************************************************************)
(* SpecFaults: the server with its eight plugins, with requests and files  *)
(* that make handlers, built-in actions and the Progress Store raise       *)
(***************************************************************************)
\* Arguments of a tool call, among them a hint request without a level
\* (get_hint(None) raises TypeError) and one with a level below the first
\* negative index (IndexError)
FaultArguments ==
    Arguments \cup {[challenge_id |-> 2], [challenge_id |-> 2, level |-> 0 - 4],
                    [challenge_id |-> 2, level |-> 0]}

\* Names called: the built-in tools, a namespaced name, an alias and a name
\* nobody declared
FaultNames ==
    {"vulnmcp_help", "vulnmcp_hint", "lvl1__system_info", "read_doc", "no_such_tool"}

\* Addresses read: the built-in one, one declared by Level 2, one routed to
\* Level 2 by its key, and one nobody owns
FaultUris ==
    {WelcomeUri,
     UriPath(SchemeVulnmcp, NetlocDocs, <<"a", "d", "m", "i", "n">>),
     UriPath(<<"f", "i", "l", "e">>, <<>>, <<"e", "t", "c">>)}
    \cup {ResourceDecls(challenges)[i].uri : i \in 1..1}

NextFaults ==
    \/ \E name \in FaultNames, arguments \in FaultArguments, bump \in {0, 1},
          raises \in BOOLEAN :
           CallTool(name, arguments, bump, raises)
    \/ \E uri \in FaultUris, bump \in {0, 1}, raises \in BOOLEAN :
           ReadResource(uri, bump, raises)
    \/ Damage("player")

SpecFaults == Init /\ [][NextFaults]_vars

\* C18: no operation of the Progress Store takes a unit's completed flag from
\* true to false, lowers a unit's best_score or lowers the user's
\* challenges_completed.
C18_NeverDecreases ==
    request.op \in StoreOps =>
        /\ After.challenges_completed >= Before.challenges_completed
        /\ \A cid \in DOMAIN Before.challenge_progress :
               LET old == Before.challenge_progress[cid]
               IN  /\ cid \in DOMAIN After.challenge_progress
                   /\ old.completed => After.challenge_progress[cid].completed
                   /\ After.challenge_progress[cid].best_score >= old.best_score

\* A unit completed with best score 2 got the score -2 submitted and is
\* completed with best score 2 as before
C18_Witness ==
    /\ Resubmitted
    /\ EntryBefore.best_score = 2
    /\ request.score = 0 - 2
    /\ EntryAfter.completed
    /\ EntryAfter.best_score = 2
    /\ After.challenges_completed = Before.challenges_completed

\* C19: after complete_challenge(user, u, s) returns, the stored current
\* score of u is s, also when s is lower than the unit's best score, in which
\* case best_score and total_score keep their values.
C19_AsStated ==
    (request.op = "complete_challenge" /\ result.raised = None) =>
        /\ EntryAfter.score = request.score
        /\ (EntryBefore.completed /\ request.score < EntryBefore.best_score) =>
               /\ EntryAfter.best_score = EntryBefore.best_score
               /\ After.total_score = Before.total_score

(***************************************************************************)
(* Properties of the badges (SpecBadges)                                   *)
(***************************************************************************)
\* C20 as stated: after a complete_challenge call, halfway is in the badge
\* list whenever at least 4 units are completed, and champion is in the
\* badge list if and only if each of the 8 registered units is completed.
C20_AsStated ==
    request.op = "complete_challenge" =>
        /\ Cardinality(Completed(After)) >= 4 => "halfway" \in Range(After.badges)
        /\ "champion" \in Range(After.badges)
               <=> Ids(challenges) \subseteq Completed(After)

\* C20, amended: after a complete_challenge call, halfway is in the badge
\* list whenever at least 4 units are completed, and champion is in the
\* badge list if and only if at least 8 units are completed, whatever their
\* ids. If each of the 8 registered units is completed, champion is held.
C20_BadgeThresholds ==
    request.op = "complete_challenge" =>
        /\ Cardinality(Completed(After)) >= 4 => "halfway" \in Range(After.badges)
        /\ "champion" \in Range(After.badges)
               <=> Cardinality(Completed(After)) >= 8
        /\ Ids(challenges) \subseteq Completed(After)
               => "champion" \in Range(After.badges)

\* The eighth completion returned champion; halfway is held since the fourth
C20_Witness ==
    /\ request.op = "complete_challenge"
    /\ result.raised = None
    /\ Cardinality(Completed(Before)) = 7
    /\ Cardinality(Completed(After)) = 8
    /\ "champion" \in Range(result.returned.new_badges)
    /\ "halfway" \in Range(Before.badges)
    /\ "halfway" \in Range(After.badges)

(***************************************************************************)
(* Properties of whole records (SpecRecords)                               *)
(***************************************************************************)
\* C13: load_progress for a user whose stored record is unreadable or
\* corrupt returns a fresh zeroed record of that user and raises nothing.
C13_AsStated ==
    ( /\ request.op = "load_progress"
      /\ Unreadable(files_before, request.username) ) =>
        /\ result.raised = None
        /\ result.returned = FreshProgress(request.username)

\* C14: after save_progress(record), load_progress of the record's username
\* returns a record equal to it in every field, the keys of
\* challenge_progress being the integers they were.
C14_SaveLoadRoundTrip ==
    request.op = "save_progress" =>
        LET loaded == load_progress(files, request.username)
        IN  /\ loaded = request.progress
            /\ DOMAIN loaded.challenge_progress \subseteq IntKeys
            /\ \A cid \in DOMAIN loaded.challenge_progress :
                   loaded.challenge_progress[cid]
                       = request.progress.challenge_progress[cid]

\* A record with a negative unit id and an absent completion time was saved
\* over another record of the same user and is read back
C14_Witness ==
    /\ request.op = "save_progress"
    /\ DOMAIN request.progress.challenge_progress = {2, 0 - 3}
    /\ request.progress.challenge_progress[0 - 3].time_completed = None
    /\ request.username \in DOMAIN files_before
    /\ ~Unreadable(files_before, request.username)
    /\ DOMAIN load_progress(files_before, request.username).challenge_progress = {12}
    /\ load_progress(files, request.username) = request.progress

\* The users whose files can be read
Readable(fs) == {u \in DOMAIN fs : fs[u] # Corrupt}

\* C15: get_leaderboard(N) returns min(N, number of readable records)
\* entries, of different users, ordered by total_score from high to low;
\* no user left out has a higher total_score than one returned; each entry
\* carries its user's username, total_score, challenges_completed and
\* number of badges.
C15_Leaderboard ==
    request.op = "get_leaderboard" =>
        LET board == result.returned
            named == {board[i].username : i \in DOMAIN board}
        IN  /\ Len(board) = Min({request.limit, Cardinality(Readable(files))})
            /\ \A i, j \in DOMAIN board :
                   /\ i < j => board[i].total_score >= board[j].total_score
                   /\ i # j => board[i].username # board[j].username
            /\ \A i \in DOMAIN board :
                   /\ board[i].username \in Readable(files)
                   /\ board[i] =
                          [username |-> board[i].username,
                           total_score |-> files[board[i].username].total_score,
                           challenges_completed |->
                               files[board[i].username].challenges_completed,
                           badges |-> Len(files[board[i].username].badges)]
            /\ \A u \in Readable(files) \ named : \A i \in DOMAIN board :
                   files[u].total_score <= board[i].total_score

\* Of three files one cannot be read and the two others differ in score;
\* the board of one entry names the higher of the two
C15_Witness ==
    /\ request.op = "get_leaderboard"
    /\ request.limit = 1
    /\ Cardinality(DOMAIN files) = 3
    /\ Cardinality(Readable(files)) = 2
    /\ Len(result.returned) = 1
    /\ \E u \in Readable(files) :
           files[u].total_score < result.returned[1].total_score

(***************************************************************************)
(* Properties of the dispatcher under faults (SpecFaults)                  *)
(***************************************************************************)
\* The text of the error result of a call_tool or read_resource whose try
\* block raised
ErrorText ==
    IF request.op = "call_tool" THEN result.content[1].text ELSE result.text

\* The last request was answered with the error result
ErrorResult ==
    /\ request.op \in {"call_tool", "read_resource"}
    /\ result.raised = None
    /\ ErrorText.msg = IF request.op = "call_tool"
                       THEN "Error executing tool" ELSE "Error reading resource"

\* C16: call_tool and read_resource raise nothing. Each returns a text
\* result, and what a plugin handler, a built-in help or hint action or the
\* Progress Store raised reaches the caller as the text of an error result.
C16_NoExceptionEscapes ==
    /\ request.op = "call_tool" =>
           /\ result.raised = None
           /\ Len(result.content) = 1
           /\ result.content[1].type = "text"
    /\ request.op = "read_resource" =>
           /\ result.raised = None
           /\ "text" \in DOMAIN result
    /\ ErrorResult =>
           ErrorText.error \in {"PluginError", "TypeError", "IndexError",
                                "RecursionError", "KeyError"}

\* vulnmcp_hint reached the Progress Store, whose file of "player" cannot be
\* read, and the caller got the error text
C16_Witness ==
    /\ request.op = "call_tool"
    /\ request.name = "vulnmcp_hint"
    /\ Unreadable(files, "player")
    /\ ErrorResult
    /\ ErrorText.error = "RecursionError"

(***************************************************************************)
(* Properties of the ownership map as built (SpecResources)                *)
(***************************************************************************)
\* The map of the automatic pass after the first i resource declarations
OwnersAfter(i) ==
    ClaimAll(SubSeq(ResourceDecls(challenges), 1, i), EmptyDict)

\* Plugins that may declare a resource next, registered or not
FurtherPlugins == Ids(challenges) \cup {3}

\* C17: in the automatic pass of _build_resource_owner_map a key that holds
\* the ambiguous value holds it after every later declaration, whichever
\* plugin makes it; the map as built differs from the result of the pass in
\* the overridden key only, which gets the override's owner even if the pass
\* left it ambiguous.
C17_AmbiguousStays ==
    LET n == Len(ResourceDecls(challenges))
        auto == AutomaticOwners(challenges)
    IN  /\ \A i \in 0..n : \A key \in DOMAIN OwnersAfter(i) :
               OwnersAfter(i)[key] = NoOwner =>
                   /\ \A j \in i..n : OwnersAfter(j)[key] = NoOwner
                   /\ \A cid \in FurtherPlugins :
                          Claimed(OwnersAfter(i), key, cid) = NoOwner
        /\ OwnersAfter(n) = auto
        /\ DOMAIN _resource_owner = DOMAIN auto \cup {OverrideKey}
        /\ \A key \in DOMAIN auto \ {OverrideKey} : _resource_owner[key] = auto[key]
        /\ _resource_owner[OverrideKey] = OverrideOwner

\* Two plugins declared a resource under the overridden key, one of them
\* once more after the key was ambiguous; the pass left the key ambiguous and
\* the map as built gives it to the override's owner
C17_Witness ==
    /\ \E i \in 1..(Len(ResourceDecls(challenges)) - 1) :
           /\ OverrideKey \in DOMAIN OwnersAfter(i)
           /\ OwnersAfter(i)[OverrideKey] = NoOwner
           /\ OwnerKey(ResourceDecls(challenges)[i + 1].uri) = OverrideKey
    /\ AutomaticOwners(challenges)[OverrideKey] = NoOwner
    /\ _resource_owner[OverrideKey] = OverrideOwner

(***************************************************************************)
(* Properties of the badge rules (SpecAwards)                              *)
(***************************************************************************)
\* The conditions of no_hints_hero and of speed_demon on a record
NoHintsCondition(progress) ==
    /\ Cardinality(Completed(progress)) >= 3
    /\ \A cid \in Completed(progress) :
           progress.challenge_progress[cid].hints_used = 0

SpeedCondition(progress) ==
    \E cid \in Completed(progress) :
        progress.challenge_progress[cid].attempts <= 5

NoDuplicates(list) ==
    \A i, j \in DOMAIN list : list[i] = list[j] => i = j

\* C22: after a complete_challenge call the stored badge list holds no
\* identifier twice and the returned new_badges are exactly the badges absent
\* from the list before the call and present after it; no call removes a
\* badge, so a badge reported new is never reported new again.
C22_NewBadgesOnce ==
    /\ request.op \in StoreOps => Range(Before.badges) \subseteq Range(After.badges)
    /\ (request.op = "complete_challenge" /\ result.raised = None) =>
        /\ NoDuplicates(After.badges)
        /\ NoDuplicates(result.returned.new_badges)
        /\ Range(result.returned.new_badges) =
               Range(After.badges) \ Range(Before.badges)

\* A completion that reports new badges to a user who already holds others
C22_Witness ==
    /\ request.op = "complete_challenge"
    /\ result.raised = None
    /\ Before.badges # <<>>
    /\ result.returned.new_badges # <<>>
    /\ Len(After.badges) >= 4


(***************************************************************************)
(* A bare name declared twice by one plugin (SpecRegistry)                 *)
(***************************************************************************)
\* C23 as stated: building the registry from a plugin that declares one bare
\* name twice fails with a configuration error, and no registry is produced
\* in which one of the two operations replaced the other.
C23_AsStated ==
    ~UniqueWithinPlugins =>
        /\ _build_tool_registry(challenges).raised # None
        /\ Cardinality(DOMAIN _tool_registry) = Len(ToolDecls(challenges))


(***************************************************************************)
(* Pending requests and the Progress Store (SpecTasks)                     *)
(***************************************************************************)
\* The tasks that ran a given method to its end
Done(op) == {t \in TaskIds : tasks[t].pc = "done" /\ tasks[t].op = op}

\* C24: in every interleaving of pending requests, no write to the user's
\* record happens between the load and the save of a Progress Store call (the
\* file is still what the call loaded while it is between the two, and was
\* when it saved), so no save is based on a stale load.
C24_LoadSaveAtomic ==
    \A t \in TaskIds :
        /\ tasks[t].pc = "loaded" => files = tasks[t].loaded
        /\ tasks[t].pc = "done" => ~tasks[t].stale

\* Three calls ran one after the other and the file shows the update of each:
\* the unit was started, then one attempt and one hint were recorded
C24_Witness ==
    /\ \A t \in TaskIds : tasks[t].pc = "done"
    /\ Done("start_challenge") # {}
    /\ Done("record_attempt") # {}
    /\ Done("use_hint") # {}
    /\ load_progress(files, "player").challenge_progress[TaskUnit].attempts = 1
    /\ load_progress(files, "player").challenge_progress[TaskUnit].hints_used = 1


(***************************************************************************)
(* record_attempt and use_hint (SpecStore)                                 *)
(***************************************************************************)
Counting == {"record_attempt", "use_hint"}

\* What the two calls leave as it was: the scores and completion flags of
\* every entry, the totals of the record and its badges
ScoresAndBadgesKept ==
    /\ DOMAIN After.challenge_progress = DOMAIN Before.challenge_progress
    /\ \A cid \in DOMAIN Before.challenge_progress :
           /\ After.challenge_progress[cid].score = Before.challenge_progress[cid].score
           /\ After.challenge_progress[cid].best_score =
                  Before.challenge_progress[cid].best_score
           /\ After.challenge_progress[cid].completed =
                  Before.challenge_progress[cid].completed
    /\ After.total_score = Before.total_score
    /\ After.challenges_completed = Before.challenges_completed
    /\ After.badges = Before.badges

\* The counters of the entries other than the one of the call
OtherCountersKept ==
    \A cid \in DOMAIN Before.challenge_progress \ {request.challenge_id} :
        /\ After.challenge_progress[cid].attempts = Before.challenge_progress[cid].attempts
        /\ After.challenge_progress[cid].hints_used =
               Before.challenge_progress[cid].hints_used

\* C25 as stated: for any user and unit id, record_attempt adds 1 to the
\* unit's attempts and to total_attempts, and use_hint adds 1 to the unit's
\* hints_used.
C25_AsStated ==
    (request.op \in Counting /\ result.raised = None) =>
        /\ request.challenge_id \in DOMAIN After.challenge_progress
        /\ request.op = "record_attempt" =>
               /\ request.challenge_id \in DOMAIN Before.challenge_progress =>
                      EntryAfter.attempts = EntryBefore.attempts + 1
               /\ After.total_attempts = Before.total_attempts + 1
        /\ request.op = "use_hint" =>
               (request.challenge_id \in DOMAIN Before.challenge_progress =>
                      EntryAfter.hints_used = EntryBefore.hints_used + 1)

\* C25, amended: for a unit that has an entry in the user's record,
\* record_attempt adds 1 to the entry's attempts and to total_attempts and
\* use_hint adds 1 to the entry's hints_used; for a unit without an entry
\* neither creates one nor changes a counter. Both leave every score, best
\* score and completion flag, total_score, challenges_completed and the
\* badges as they were.
C25_CountersOfStartedUnits ==
    (request.op \in Counting /\ result.raised = None) =>
        /\ ScoresAndBadgesKept
        /\ OtherCountersKept
        /\ IF request.challenge_id \in DOMAIN Before.challenge_progress
           THEN IF request.op = "record_attempt"
                THEN /\ EntryAfter.attempts = EntryBefore.attempts + 1
                     /\ After.total_attempts = Before.total_attempts + 1
                     /\ EntryAfter.hints_used = EntryBefore.hints_used
                ELSE /\ EntryAfter.hints_used = EntryBefore.hints_used + 1
                     /\ EntryAfter.attempts = EntryBefore.attempts
                     /\ After.total_attempts = Before.total_attempts
           ELSE After.total_attempts = Before.total_attempts

\* A hint recorded for a completed unit with a score, beside another entry
C25_Witness ==
    /\ request.op = "use_hint"
    /\ result.raised = None
    /\ request.challenge_id \in DOMAIN Before.challenge_progress
    /\ EntryBefore.completed
    /\ EntryBefore.score > 0
    /\ EntryAfter.hints_used = 1
    /\ Cardinality(DOMAIN Before.challenge_progress) = 2

C26_PerfectAtFive ==
    /\ \A username \in DOMAIN files :
           LET progress == load_progress(files, username)
           IN  /\ \A cid \in Completed(progress) :
                      progress.challenge_progress[cid].score =
                          progress.challenge_progress[cid].best_score
               /\ Cardinality(Completed(progress)) >= 5
                      => "perfect_score" \in Range(progress.badges)
    /\ (request.op = "complete_challenge" /\ result.raised = None) =>
           ("perfect_score" \in Range(result.returned.new_badges)
                <=> (Cardinality(Completed(Before)) = 4
                     /\ Cardinality(Completed(After)) = 5))

\* The fifth completion reported perfect_score, after a unit had been
\* resubmitted with a lower score than its best
C26_Witness ==
    /\ request.op = "complete_challenge"
    /\ result.raised = None
    /\ "perfect_score" \in Range(result.returned.new_badges)
    /\ Cardinality(Completed(After)) = 5
    /\ \E cid \in Completed(After) :
           After.challenge_progress[cid].best_score = MaxScore
    /\ \E cid \in Completed(After) :
           After.challenge_progress[cid].best_score = 0


(***************************************************************************)
(* The listed names and what they dispatch to (SpecListing)                *)
(***************************************************************************)
ListedNames == {list_tools[i].name : i \in DOMAIN list_tools}

NamesPairwiseDistinct ==
    \A i, j \in DOMAIN list_tools :
        list_tools[i].name = list_tools[j].name => i = j

\* The call handled last went to the operation that entry e of the listing
\* shows: to the dispatcher itself for a built-in, and otherwise to the
\* plugin that declared e's Tool object, with the bare name of that object
DispatchedTo(e) ==
    IF e.description[1] = 0
    THEN /\ \A i \in DOMAIN calls : calls[i].method # "handle_tool_call"
         /\ result.content # UnknownTool(request.name)
    ELSE Invokes(e.description[1],
                 ChallengeOf(challenges, e.description[1]).tools[e.description[2]].name)

DispatchAsListed ==
    request.op = "call_tool" =>
        \A i \in DOMAIN list_tools :
            list_tools[i].name = request.name => DispatchedTo(list_tools[i])

\* No alias is the name of a built-in tool or a key of the namespaced table
AliasesApart ==
    DOMAIN _unique_tool_registry \cap (BuiltinNames \cup DOMAIN _tool_registry) = {}

C29_AsStated ==
    ( /\ request.op = "call_tool"
      /\ request.name = "vulnmcp_hint"
      /\ Has(request.arguments, "level")
      /\ request.arguments.challenge_id \in Ids(challenges) ) =>
        LET level == request.arguments.level
            got == get_hint(level)
        IN  IF level \in 1..NumHints
            THEN got.raised = None /\ got.hint = level /\ got.counted = 1
            ELSE /\ got.raised = None /\ got.hint = 0 /\ got.counted = 0
                 /\ result.content =
                        <<TextContent([msg |-> "Invalid hint level", level |-> level])>>
                 /\ files = files_before


(***************************************************************************)
(* What one request touches (SpecFaults)                                   *)
(***************************************************************************)
\* C30: handling one call_tool or read_resource request invokes a method of
\* at most one plugin, leaves the counters of every plugin it did not invoke
\* as they were, and leaves the plugin set, the namespaced table, the alias
\* table and the ownership map unchanged.
C30_OnePluginTouched ==
    [][ /\ Len(calls') <= 1
        /\ \A cid \in Ids(challenges) :
               (\A i \in DOMAIN calls' : calls'[i].cid # cid)
                   => pstate'[cid] = pstate[cid]
        /\ challenges' = challenges
        /\ _tool_registry' = _tool_registry
        /\ _unique_tool_registry' = _unique_tool_registry
        /\ _namespaced_tools' = _namespaced_tools
        /\ _resource_owner' = _resource_owner ]_vars

\* A call by an alias reached Level 2's handler, which counted an attempt;
\* the counters of the seven other plugins are still 0
C30_Witness ==
    /\ request.op = "call_tool"
    /\ request.name = "read_doc"
    /\ calls = <<[cid |-> 2, method |-> "handle_tool_call", name |-> "read_doc",
                 arguments |-> request.arguments]>>
    /\ pstate[2].attempts = 1
    /\ \A cid \in Ids(challenges) \ {2} :
           pstate[cid] = [attempts |-> 0, hints_used |-> 0]

====
